---- MODULE Spec2Model ----
(***************************************************************************)
(* A model of the broqer publish/subscribe core.                           *)
(*                                                                         *)
(*   Spec          broqer/publisher.py  Publisher (ordered subscriber      *)
(*                 list, cached state, activation callback) with the       *)
(*                 synchronous, re-entrant call stack of notify/subscribe. *)
(*   SpecOperator  broqer/op/_operator.py  Operator and MultiOperator on   *)
(*                 top of broqer/core.py Publisher (subscriber set).       *)
(*   SpecHub       broqer/hub.py  Hub and Topic on top of broqer/core.py   *)
(*                 Publisher, with broqer/value.py Value as subject.       *)
(***************************************************************************)
EXTENDS Integers, Sequences, FiniteSets, TLC

(* ------------------------------ bounds -------------------------------- *)
NumSubscribers == 3
MaxValue == 2
MaxReentrant == 1
NumCallbacks == 2
NumUpstreams == 2
NumNames == 1
NumSinks == 2
NumSubjects == 2
NumWaiters == 2
MaxTimeout == 2
MaxArity == 1
MaxSize == 3
MaxFed == 4
NumSources == 2
MaxCombine == 1
MaxNotified == 3
NumCollectors == 1

(* broqer.NONE: the "no value yet" marker; every payload value differs *)
NONE == 0

Subscribers == 1..NumSubscribers
Values == 1..MaxValue
Callbacks == 1..NumCallbacks

(* A subscriber or callback slot holding Python's None *)
Nobody == 0

VARIABLES
    state,               \* Publisher._state
    subscriptions,       \* Publisher._subscriptions (a list)
    on_subscription_cb,  \* Publisher._on_subscription_cb (Nobody = None)
    stack,               \* the synchronous call stack of running notify loops
    last                 \* what the step just taken did (observation)

pubVars == <<state, subscriptions, on_subscription_cb, stack, last>>

VARIABLES
    opSubs,              \* Operator._subscriptions (a set)
    mopSubs,             \* MultiOperator._subscriptions (a set)
    upstream,            \* upstream[u]: _subscriptions of upstream publisher u
    olast                \* what the step just taken did (observation)

opVars == <<opSubs, mopSubs, upstream, olast>>

VARIABLES
    proxies,             \* the keys of Hub._proxies
    tSubs,               \* tSubs[n]: Topic._subscriptions of hub[n] (a set)
    subject,             \* subject[n]: Topic._subject of hub[n]
    meta,                \* meta[n]: Topic._meta of hub[n]
    vState,              \* vState[p]: _state of Value p
    vSubs,               \* vSubs[p]: _subscriptions of Value p (a list)
    hlast                \* what the step just taken did (observation)

hubVars == <<proxies, tSubs, subject, meta, vState, vSubs, hlast>>

VARIABLES
    aSubject,            \* Topic._subject of the topic waited for
    aSubs,               \* its Topic._subscriptions (a set)
    aSubscribed,         \* the topic is in its subject's subscriber list
    aMeta,               \* its Topic._meta
    assignment_future,   \* its Topic._assignment_future (NoFuture = no attribute)
    futures,             \* futures[f]: the state of the asyncio future f
    waiters,             \* waiters[w]: the wait_for_assignment coroutine w
    wlast                \* what the step just taken did (observation)

waitVars == <<aSubject, aSubs, aSubscribed, aMeta, assignment_future,
              futures, waiters, wlast>>

VARIABLES
    opKind,              \* the operator is a "Cache" or a "Distinct"
    opCache,             \* Cache._cache / Distinct._state (NoTuple = None)
    cSubs,               \* the operator's _subscriptions (a set)
    srcKind,             \* its upstream is a "Publisher" or a "CachedPublisher"
    srcCache,            \* CachedPublisher._cache of the upstream
    srcSubscribed,       \* the operator is in the upstream's _subscriptions
    clast                \* what the step just taken did (observation)

cacheVars == <<opKind, opCache, cSubs, srcKind, srcCache, srcSubscribed, clast>>

VARIABLES
    maxlen,              \* SlidingWindow._cache.maxlen (the size argument)
    emit_partial,        \* SlidingWindow._emit_partial
    window,              \* SlidingWindow._cache (the deque, oldest first)
    swSubs,              \* the SlidingWindow's _subscriptions (a set)
    swSubscribed,        \* it is in its upstream's _subscriptions
    swSrcKind,           \* its upstream is a "Publisher" or a "CachedPublisher"
    swSrcCache,          \* CachedPublisher._cache of the upstream
    fed,                 \* the values its emit() has received, in order
    sent,                \* the buffers its emit() has forwarded, in order
    swlast               \* what the step just taken did (observation)

windowVars == <<maxlen, emit_partial, window, swSubs, swSubscribed, swSrcKind,
                swSrcCache, fed, sent, swlast>>

VARIABLES
    sources,             \* how many publishers the CombineLatest was given
    emit_on,             \* the emit_on trigger set (positions of publishers)
    map_,                \* the map_ function ("tuple": none given)
    latest,              \* latest[i]: latest value received from publisher i
    combined,            \* the CombineLatest's own state (last emission)
    clSubs,              \* CombineLatest._subscriptions (a set)
    srcState,            \* srcState[i]: Publisher._state of publisher i
    clFed,               \* the updates the CombineLatest received so far
    clSent,              \* what it emitted for them so far
    clMissed,            \* how many updates it missed while not subscribed
    cllast               \* what the step just taken did (observation)

combineVars == <<sources, emit_on, map_, latest, combined, clSubs, srcState,
                 clFed, clSent, clMissed, cllast>>

VARIABLES
    pSubs,               \* Publisher._subscriptions of a core.py Publisher
    disposables,         \* the SubscriptionDisposables its subscribe returned
    dlast                \* what the step just taken did (observation)

disposeVars == <<pSubs, disposables, dlast>>

vars == <<pubVars, opVars, hubVars, waitVars, cacheVars, windowVars,
          combineVars, disposeVars>>

(* what the actions of one component leave alone *)
notPublisher == <<opVars, hubVars, waitVars, cacheVars, windowVars,
    combineVars, disposeVars>>
notOperator == <<pubVars, hubVars, waitVars, cacheVars, windowVars,
    combineVars, disposeVars>>
notHub == <<pubVars, opVars, waitVars, cacheVars, windowVars,
    combineVars, disposeVars>>
notWait == <<pubVars, opVars, hubVars, cacheVars, windowVars,
    combineVars, disposeVars>>
notCache == <<pubVars, opVars, hubVars, waitVars, windowVars,
    combineVars, disposeVars>>
notWindow == <<pubVars, opVars, hubVars, waitVars, cacheVars, combineVars,
    disposeVars>>
notCombine == <<pubVars, opVars, hubVars, waitVars, cacheVars, windowVars,
    disposeVars>>
notDispose == <<pubVars, opVars, hubVars, waitVars, cacheVars, windowVars,
    combineVars>>

(* ------------------------- sequence helpers --------------------------- *)
Range(seq) == {seq[i] : i \in 1..Len(seq)}

Count(seq, x) == Cardinality({i \in 1..Len(seq) : seq[i] = x})

NoDuplicates(seq) == \A i, j \in 1..Len(seq) : seq[i] = seq[j] => i = j

(* list.pop(i) *)
Pop(seq, i) == SubSeq(seq, 1, i - 1) \o SubSeq(seq, i + 1, Len(seq))

(* ===================== broqer/publisher.py Publisher =================== *)

(* any(subscriber is s for s in self._subscriptions) *)
IsSubscribedNever(subs, s) == FALSE

IsSubscribed(subs, s) == \E i \in 1..Len(subs) : subs[i] = s

(* if prepend: insert(0, subscriber) else: append(subscriber) *)
SubscribeInsertAppendOnly(subs, s, prepend) == Append(subs, s)

SubscribeInsert(subs, s, prepend) ==
    IF prepend THEN <<s>> \o subs ELSE Append(subs, s)

(* if not self._subscriptions and self._on_subscription_cb: cb(True)      *)
(* evaluated on the list before the insertion                             *)
SubscribeCallbacksAlways(subs, cb) ==
    IF cb # Nobody THEN <<[cb |-> cb, arg |-> TRUE]>> ELSE <<>>

SubscribeCallbacks(subs, cb) ==
    IF subs = <<>> /\ cb # Nobody THEN <<[cb |-> cb, arg |-> TRUE]>> ELSE <<>>

(* if self._state is not NONE: subscriber.emit(self._state, who=self) *)
ReplayEmitsAlways(st, s) == <<[to |-> s, val |-> st]>>

ReplayEmits(st, s) ==
    IF st # NONE THEN <<[to |-> s, val |-> st]>> ELSE <<>>

(* for i, _s in enumerate(...): if _s is subscriber: pop(i); ...; return *)
FirstIndex(subs, s) ==
    CHOOSE i \in 1..Len(subs) :
        subs[i] = s /\ \A j \in 1..(i - 1) : subs[j] # s

UnsubscribeRemove(subs, s) == Pop(subs, FirstIndex(subs, s))

(* if not self._subscriptions and self._on_subscription_cb: cb(False)     *)
(* evaluated on the list after the pop                                    *)
UnsubscribeCallbacksNever(subsAfter, cb) == <<>>

UnsubscribeCallbacks(subsAfter, cb) ==
    IF subsAfter = <<>> /\ cb # Nobody
    THEN <<[cb |-> cb, arg |-> FALSE]>> ELSE <<>>

(* ---------------------------- call stack ------------------------------ *)
(* A frame is one running `for s in self._subscriptions` loop of notify.  *)
(* idx is the list iterator's index: Python's list iterator reads the     *)
(* live list and yields subs[idx] while idx < len(subs). inEmit tells     *)
(* that the emit() of the subscriber yielded last is executing; that      *)
(* subscriber's code may call back into the publisher.                    *)
(* snap, visited, added, removed, calls observe the loop: the list when   *)
(* notify was called, the subscribers the loop has called emit on, those  *)
(* added by re-entrant subscribes, whether a re-entrant unsubscribe       *)
(* removed one, and the number of re-entrant calls made while it ran.     *)
(* The frame of the top-level notify also observes, for everything that   *)
(* runs inside it: recv[s], the value subscriber s received last (NONE:   *)
(* none), and renotify, the argument of the latest re-entrant notify      *)
(* (NONE: no such call).                                                  *)
NotifyFrame(v, subs) ==
    [value |-> v, idx |-> 0, inEmit |-> FALSE,
     snap |-> subs, visited |-> <<>>, added |-> {}, removed |-> FALSE,
     calls |-> 0, recv |-> [s \in Subscribers |-> NONE], renotify |-> NONE]

Top == stack[Len(stack)]

(* a call is made from top level or from inside a running emit(); the    *)
(* subscribers' code makes at most MaxReentrant calls back into the      *)
(* publisher during one top-level notify                                 *)
CanCall ==
    IF stack = <<>> THEN TRUE
    ELSE Top.inEmit /\ stack[1].calls < MaxReentrant

Called(stk) ==
    [i \in 1..Len(stk) |-> [stk[i] EXCEPT !.calls = @ + 1]]

MarkAdded(stk, s) ==
    [i \in 1..Len(stk) |-> [stk[i] EXCEPT !.added = @ \cup {s}]]

(* s.emit(v, who=self) was called, from the loop of notify (line 128) or *)
(* as the replay of subscribe (line 91)                                  *)
Received(stk, s, v) ==
    IF stk = <<>> THEN stk ELSE [stk EXCEPT ![1].recv[s] = v]

(* notify(w) is called from inside a running emit() *)
Renotified(stk, w) ==
    IF stk = <<>> THEN stk ELSE [stk EXCEPT ![1].renotify = w]

MarkRemoved(stk) ==
    [i \in 1..Len(stk) |-> [stk[i] EXCEPT !.removed = TRUE]]

(* An exception raised inside a running emit() is caught by one of the   *)
(* callers on the stack or propagates to top level: the loops above the  *)
(* catching one are abandoned.                                           *)
Unwound(stk) == {SubSeq(Called(stk), 1, k) : k \in 0..Len(stk)}

(* the order in which a call invokes the activation callback and makes   *)
(* its emit call: subscribe invokes the callback in lines 80-81, before   *)
(* the insertion, and replays in lines 90-91, after it; unsubscribe       *)
(* makes no emit call                                                     *)
CallOrderEmitFirst(cbs, emits) ==
    [k \in 1..Len(emits) |-> "emit"] \o [k \in 1..Len(cbs) |-> "callback"]

CallOrder(cbs, emits) ==
    [k \in 1..Len(cbs) |-> "callback"] \o [k \in 1..Len(emits) |-> "emit"]

(* the observation of one call: its arguments, whether it returned        *)
(* normally, the activation callbacks it invoked and the emit() calls it  *)
(* made itself, in order                                                  *)
Call(op, s, prepend, ok, cbs, emits) ==
    [op |-> op, sub |-> s, prepend |-> prepend, ok |-> ok,
     cbs |-> cbs, emits |-> emits, order |-> CallOrder(cbs, emits)]

(* the step taken was no call: an iteration or a return *)
NoCall ==
    [op |-> "none", sub |-> Nobody, prepend |-> FALSE, ok |-> TRUE,
     cbs |-> <<>>, emits |-> <<>>, order |-> <<>>]

(* ------------------------------ actions ------------------------------- *)
(* Publisher.subscribe, lines 62-93.  The replay emit of line 91 is       *)
(* recorded in last.emits; the subscriber's emit() is taken to return     *)
(* without calling back into the publisher (re-entrant calls are          *)
(* modelled from the emit() of notify only).                              *)
Subscribe(s, prepend) ==
    /\ CanCall
    /\ ~IsSubscribed(subscriptions, s)
    /\ subscriptions' = SubscribeInsert(subscriptions, s, prepend)
    /\ stack' = Called(MarkAdded(IF ReplayEmits(state, s) = <<>> THEN stack
                                 ELSE Received(stack, s, state), s))
    /\ last' = Call("subscribe", s, prepend, TRUE,
                    SubscribeCallbacks(subscriptions, on_subscription_cb),
                    ReplayEmits(state, s))
    /\ UNCHANGED <<state, on_subscription_cb>>
    /\ UNCHANGED notPublisher

(* Publisher.subscribe raising SubscriptionError, lines 77-78 *)
SubscribeError(s) ==
    /\ CanCall
    /\ IsSubscribed(subscriptions, s)
    /\ stack' \in Unwound(stack)
    /\ last' = Call("subscribe", s, FALSE, FALSE, <<>>, <<>>)
    /\ UNCHANGED <<state, subscriptions, on_subscription_cb>>
    /\ UNCHANGED notPublisher

(* Publisher.unsubscribe, lines 95-113 *)
Unsubscribe(s) ==
    /\ CanCall
    /\ \E i \in 1..Len(subscriptions) : subscriptions[i] = s
    /\ subscriptions' = UnsubscribeRemove(subscriptions, s)
    /\ stack' = Called(MarkRemoved(stack))
    /\ last' = Call("unsubscribe", s, FALSE, TRUE,
                    UnsubscribeCallbacks(subscriptions', on_subscription_cb),
                    <<>>)
    /\ UNCHANGED <<state, on_subscription_cb>>
    /\ UNCHANGED notPublisher

(* Publisher.unsubscribe raising SubscriptionError, line 115 *)
UnsubscribeError(s) ==
    /\ CanCall
    /\ \A i \in 1..Len(subscriptions) : subscriptions[i] # s
    /\ stack' \in Unwound(stack)
    /\ last' = Call("unsubscribe", s, FALSE, FALSE, <<>>, <<>>)
    /\ UNCHANGED <<state, subscriptions, on_subscription_cb>>
    /\ UNCHANGED notPublisher

(* notify without the assignment of line 126 *)
NotifyNoStore(v) ==
    /\ CanCall
    /\ stack' = Append(Called(stack), NotifyFrame(v, subscriptions))
    /\ last' = Call("notify", Nobody, FALSE, TRUE, <<>>, <<>>)
    /\ UNCHANGED <<state, subscriptions, on_subscription_cb>>
    /\ UNCHANGED notPublisher

(* Publisher.notify, line 126 and the start of the loop of line 127 *)
Notify(v) ==
    /\ CanCall
    /\ state' = v
    /\ stack' = Append(Renotified(Called(stack), v),
                       NotifyFrame(v, subscriptions))
    /\ last' = Call("notify", Nobody, FALSE, TRUE, <<>>, <<>>)
    /\ UNCHANGED <<subscriptions, on_subscription_cb>>
    /\ UNCHANGED notPublisher

(* a loop over a copy taken at call time, as core.py _emit makes one  *)
(* with tuple(self._subscriptions)                                    *)
NotifyListSnapshot(f) == f.snap

(* the list the loop of notify iterates, line 127: self._subscriptions *)
(* itself, read again at every iteration                               *)
NotifyList(f) == subscriptions

(* one iteration of `for s in self._subscriptions: s.emit(value, who=self)` *)
NotifyNext ==
    /\ stack # <<>>
    /\ ~Top.inEmit
    /\ Top.idx < Len(NotifyList(Top))
    /\ stack' = Received([stack EXCEPT ![Len(stack)] =
                             [@ EXCEPT !.idx = @ + 1, !.inEmit = TRUE,
                                       !.visited =
                                          Append(@, NotifyList(Top)[Top.idx + 1])]],
                          NotifyList(Top)[Top.idx + 1], Top.value)
    /\ last' = NoCall
    /\ UNCHANGED <<state, subscriptions, on_subscription_cb>>
    /\ UNCHANGED notPublisher

(* s.emit(value, who=self) returns into the loop of notify *)
EmitReturn ==
    /\ stack # <<>>
    /\ Top.inEmit
    /\ stack' = [stack EXCEPT ![Len(stack)] = [@ EXCEPT !.inEmit = FALSE]]
    /\ last' = NoCall
    /\ UNCHANGED <<state, subscriptions, on_subscription_cb>>
    /\ UNCHANGED notPublisher

(* the loop of notify is exhausted *)
NotifyDone(f) == ~f.inEmit /\ f.idx >= Len(NotifyList(f))

(* notify returns *)
NotifyReturn ==
    /\ stack # <<>>
    /\ NotifyDone(Top)
    /\ stack' = SubSeq(stack, 1, Len(stack) - 1)
    /\ last' = NoCall
    /\ UNCHANGED <<state, subscriptions, on_subscription_cb>>
    /\ UNCHANGED notPublisher

(* reset_state going through notify *)
ResetStateNotifying(v) ==
    /\ CanCall
    /\ state' = v
    /\ last' = Call("reset_state", Nobody, FALSE, TRUE, <<>>, <<>>)
    /\ stack' = Append(Called(stack), NotifyFrame(v, subscriptions))
    /\ UNCHANGED <<subscriptions, on_subscription_cb>>
    /\ UNCHANGED notPublisher

(* Publisher.reset_state, lines 130-135 *)
ResetState(v) ==
    /\ CanCall
    /\ state' = v
    /\ last' = Call("reset_state", Nobody, FALSE, TRUE, <<>>, <<>>)
    /\ stack' = Called(stack)
    /\ UNCHANGED <<subscriptions, on_subscription_cb>>
    /\ UNCHANGED notPublisher

(* the callback stored without the check of line 151 *)
RegisterCallbackOverwrite(c) ==
    /\ CanCall
    /\ on_subscription_cb' = c
    /\ stack' = Called(stack)
    /\ last' = Call("register", c, FALSE, TRUE, <<>>, <<>>)
    /\ UNCHANGED <<state, subscriptions>>
    /\ UNCHANGED notPublisher

(* Publisher.register_on_subscription_callback, lines 142-154 *)
RegisterCallback(c) ==
    /\ CanCall
    /\ on_subscription_cb = Nobody
    /\ on_subscription_cb' = c
    /\ stack' = Called(stack)
    /\ last' = Call("register", c, FALSE, TRUE, <<>>, <<>>)
    /\ UNCHANGED <<state, subscriptions>>
    /\ UNCHANGED notPublisher

RegisterCallbackError(c) ==
    /\ CanCall
    /\ on_subscription_cb # Nobody
    /\ stack' \in Unwound(stack)
    /\ last' = Call("register", c, FALSE, FALSE, <<>>, <<>>)
    /\ UNCHANGED <<state, subscriptions, on_subscription_cb>>
    /\ UNCHANGED notPublisher

(* Publisher.__init__, lines 55-60 *)
InitPublisher ==
    /\ state \in {NONE} \cup Values
    /\ subscriptions = <<>>
    /\ on_subscription_cb = Nobody
    /\ stack = <<>>
    /\ last = NoCall

NextPublisher ==
    \/ \E s \in Subscribers, prepend \in BOOLEAN : Subscribe(s, prepend)
    \/ \E s \in Subscribers : SubscribeError(s)
    \/ \E s \in Subscribers : Unsubscribe(s)
    \/ \E s \in Subscribers : UnsubscribeError(s)
    \/ \E v \in Values : Notify(v)
    \/ NotifyNext
    \/ EmitReturn
    \/ NotifyReturn
    \/ \E v \in {NONE} \cup Values : ResetState(v)
    \/ \E c \in Callbacks : RegisterCallback(c)
    \/ \E c \in Callbacks : RegisterCallbackError(c)

(* ============ broqer/core.py Publisher (subscriber set) =============== *)

(* Publisher.subscribe, lines 46-51: raises when already in the set *)
CoreSubscribeOk(subs, s) == s \notin subs

CoreSubscribe(subs, s) == subs \cup {s}

(* Publisher.unsubscribe, lines 53-57: raises when not in the set *)
CoreUnsubscribeOkAlways(subs, s) == TRUE

CoreUnsubscribeOk(subs, s) == s \in subs

CoreUnsubscribe(subs, s) == subs \ {s}

(* Publisher._emit, lines 59-62: emit is called on each subscriber of a  *)
(* tuple copy of the set                                                 *)
CoreEmitTargets(subs) == subs

(* ========== broqer/op/_operator.py Operator, MultiOperator ============ *)
Upstreams == 1..NumUpstreams

(* Operator._publisher: the one upstream publisher the Operator wraps *)
OperatorPublisher == 1

(* MultiOperator._publishers: the tuple of upstream publishers *)
MultiPublishers == [i \in 1..NumUpstreams |-> i]

(* if len(self._subscriptions)==1: the subscribe was the first one *)
FirstSubscriptionAny(subsAfter) == TRUE

FirstSubscription(subsAfter) == Cardinality(subsAfter) = 1

(* if not self._subscriptions: the unsubscribe removed the last one *)
LastSubscriberLeftNever(subsAfter) == FALSE

LastSubscriberLeft(subsAfter) == subsAfter = {}

(* publisher.subscribe(node) for the publishers from position i on, in  *)
(* order; the first one that raises ends the loop                       *)
RECURSIVE SubscribeAll(_, _, _, _)
SubscribeAll(up, pubs, i, node) ==
    IF i > Len(pubs) THEN [ok |-> TRUE, up |-> up]
    ELSE IF ~CoreSubscribeOk(up[pubs[i]], node) THEN [ok |-> FALSE, up |-> up]
    ELSE SubscribeAll([up EXCEPT ![pubs[i]] = CoreSubscribe(@, node)],
                      pubs, i + 1, node)

(* publisher.unsubscribe(node) likewise *)
RECURSIVE UnsubscribeAll(_, _, _, _)
UnsubscribeAll(up, pubs, i, node) ==
    IF i > Len(pubs) THEN [ok |-> TRUE, up |-> up]
    ELSE IF ~CoreUnsubscribeOk(up[pubs[i]], node)
         THEN [ok |-> FALSE, up |-> up]
    ELSE UnsubscribeAll([up EXCEPT ![pubs[i]] = CoreUnsubscribe(@, node)],
                        pubs, i + 1, node)

OpCall(op, node, s, ok, to) ==
    [op |-> op, node |-> node, sub |-> s, ok |-> ok, to |-> to]

(* <node>.subscribe(s) of Operator (lines 12-16, pubs = its one          *)
(* publisher) and of MultiOperator (lines 29-34): the result of the call *)
NodeSubscribe(subs, pubs, node, s) ==
    IF FirstSubscription(CoreSubscribe(subs, s))
    THEN SubscribeAll(upstream, pubs, 1, node)
    ELSE [ok |-> TRUE, up |-> upstream]

(* <node>.unsubscribe(s), lines 18-21 and 36-40 *)
NodeUnsubscribe(subs, pubs, node, s) ==
    IF LastSubscriberLeft(CoreUnsubscribe(subs, s))
    THEN UnsubscribeAll(upstream, pubs, 1, node)
    ELSE [ok |-> TRUE, up |-> upstream]

(* Operator.subscribe, lines 12-16 *)
OperatorSubscribe(s) ==
    /\ CoreSubscribeOk(opSubs, s)
    /\ opSubs' = CoreSubscribe(opSubs, s)
    /\ LET r == NodeSubscribe(opSubs, <<OperatorPublisher>>, "Operator", s)
       IN /\ upstream' = r.up
          /\ olast' = OpCall("subscribe", "Operator", s, r.ok, {})
    /\ UNCHANGED mopSubs
    /\ UNCHANGED notOperator

(* Operator.subscribe: Publisher.subscribe raises, line 13 *)
OperatorSubscribeError(s) ==
    /\ ~CoreSubscribeOk(opSubs, s)
    /\ olast' = OpCall("subscribe", "Operator", s, FALSE, {})
    /\ UNCHANGED <<opSubs, mopSubs, upstream>>
    /\ UNCHANGED notOperator

(* Operator.unsubscribe, lines 18-21 *)
OperatorUnsubscribe(s) ==
    /\ CoreUnsubscribeOk(opSubs, s)
    /\ opSubs' = CoreUnsubscribe(opSubs, s)
    /\ LET r == NodeUnsubscribe(opSubs, <<OperatorPublisher>>, "Operator", s)
       IN /\ upstream' = r.up
          /\ olast' = OpCall("unsubscribe", "Operator", s, r.ok, {})
    /\ UNCHANGED mopSubs
    /\ UNCHANGED notOperator

(* Operator.unsubscribe: Publisher.unsubscribe raises, line 19 *)
OperatorUnsubscribeError(s) ==
    /\ ~CoreUnsubscribeOk(opSubs, s)
    /\ olast' = OpCall("unsubscribe", "Operator", s, FALSE, {})
    /\ UNCHANGED <<opSubs, mopSubs, upstream>>
    /\ UNCHANGED notOperator

(* MultiOperator.subscribe, lines 29-34 *)
MultiSubscribe(s) ==
    /\ CoreSubscribeOk(mopSubs, s)
    /\ mopSubs' = CoreSubscribe(mopSubs, s)
    /\ LET r == NodeSubscribe(mopSubs, MultiPublishers, "MultiOperator", s)
       IN /\ upstream' = r.up
          /\ olast' = OpCall("subscribe", "MultiOperator", s, r.ok, {})
    /\ UNCHANGED opSubs
    /\ UNCHANGED notOperator

(* MultiOperator.subscribe: Publisher.subscribe raises, line 30 *)
MultiSubscribeError(s) ==
    /\ ~CoreSubscribeOk(mopSubs, s)
    /\ olast' = OpCall("subscribe", "MultiOperator", s, FALSE, {})
    /\ UNCHANGED <<opSubs, mopSubs, upstream>>
    /\ UNCHANGED notOperator

(* MultiOperator.unsubscribe, lines 36-40 *)
MultiUnsubscribe(s) ==
    /\ CoreUnsubscribeOk(mopSubs, s)
    /\ mopSubs' = CoreUnsubscribe(mopSubs, s)
    /\ LET r == NodeUnsubscribe(mopSubs, MultiPublishers, "MultiOperator", s)
       IN /\ upstream' = r.up
          /\ olast' = OpCall("unsubscribe", "MultiOperator", s, r.ok, {})
    /\ UNCHANGED opSubs
    /\ UNCHANGED notOperator

(* MultiOperator.unsubscribe: Publisher.unsubscribe raises, line 37 *)
MultiUnsubscribeError(s) ==
    /\ ~CoreUnsubscribeOk(mopSubs, s)
    /\ olast' = OpCall("unsubscribe", "MultiOperator", s, FALSE, {})
    /\ UNCHANGED <<opSubs, mopSubs, upstream>>
    /\ UNCHANGED notOperator

(* upstream publisher u emits: Publisher._emit, core.py lines 59-62 *)
UpstreamEmit(u) ==
    /\ olast' = OpCall("emit", "upstream", u, TRUE,
                       CoreEmitTargets(upstream[u]))
    /\ UNCHANGED <<opSubs, mopSubs, upstream>>
    /\ UNCHANGED notOperator

(* Operator.__init__, MultiOperator.__init__, Publisher.__init__ *)
InitOperator ==
    /\ opSubs = {}
    /\ mopSubs = {}
    /\ upstream = [u \in Upstreams |-> {}]
    /\ olast = OpCall("none", "none", Nobody, TRUE, {})

NextOperator ==
    \/ \E s \in Subscribers : OperatorSubscribe(s)
    \/ \E s \in Subscribers : OperatorSubscribeError(s)
    \/ \E s \in Subscribers : OperatorUnsubscribe(s)
    \/ \E s \in Subscribers : OperatorUnsubscribeError(s)
    \/ \E s \in Subscribers : MultiSubscribe(s)
    \/ \E s \in Subscribers : MultiSubscribeError(s)
    \/ \E s \in Subscribers : MultiUnsubscribe(s)
    \/ \E s \in Subscribers : MultiUnsubscribeError(s)
    \/ \E u \in Upstreams : UpstreamEmit(u)

(* ===================== broqer/hub.py Hub, Topic ======================= *)
(* The subjects are Values (broqer/value.py): publishers of               *)
(* broqer/publisher.py whose emit(value) is notify(value). A Value is     *)
(* constructed, Value(init), by the expression that binds it to its       *)
(* first topic. The subscribers of a topic are sinks: their emit() does   *)
(* not call back.                                                         *)
Names == 1..NumNames
Subjects == 1..NumSubjects
Sinks == 1..NumSinks
Metas == {"m1"}

(* got[n][s]: the values the emit() of subscriber s of topic n received *)
NothingGot == [n \in Names |-> [s \in Sinks |-> <<>>]]

(* Topic.emit(v, who=subject), lines 136-137: self._emit(v), that is      *)
(* core.py lines 59-62: emit(v) on every subscriber of the topic          *)
TopicPublishAndForward(got, ts, n, v) ==
    [got EXCEPT ![n] = [s \in Sinks |->
        IF s \in ts[n] THEN @[s] \o <<v, v>> ELSE @[s]]]

TopicPublish(got, ts, n, v) ==
    [got EXCEPT ![n] = [s \in Sinks |->
        IF s \in CoreEmitTargets(ts[n]) THEN Append(@[s], v) ELSE @[s]]]

(* the loop of Publisher.notify over the Value's list of topics,          *)
(* publisher.py lines 127-128, from position i on                         *)
RECURSIVE ValueFanOut(_, _, _, _, _)
ValueFanOut(got, ts, topics, i, v) ==
    IF i > Len(topics) THEN got
    ELSE ValueFanOut(TopicPublish(got, ts, topics[i], v), ts, topics, i + 1, v)

(* Value p .subscribe(topic n), publisher.py lines 62-93: the list of p   *)
(* after the call, whether it returned normally, what the sinks got; ts   *)
(* and vs are the topics' subscriber sets and the Values' states at the   *)
(* time of the call                                                       *)
ValueSubscribe(p, n, ts, vs) ==
    IF IsSubscribed(vSubs[p], n)
    THEN [ok |-> FALSE, subs |-> vSubs[p], got |-> NothingGot]
    ELSE [ok |-> TRUE, subs |-> SubscribeInsert(vSubs[p], n, FALSE),
          got |-> IF ReplayEmits(vs[p], n) = <<>> THEN NothingGot
                  ELSE TopicPublish(NothingGot, ts, n, vs[p])]

(* Value p .unsubscribe(topic n), publisher.py lines 95-115 *)
ValueUnsubscribe(p, n) ==
    IF IsSubscribed(vSubs[p], n)
    THEN [ok |-> TRUE, subs |-> UnsubscribeRemove(vSubs[p], n)]
    ELSE [ok |-> FALSE, subs |-> vSubs[p]]

(* if len(self._subscriptions) == 1 and self._subject is not None *)
TopicActivatesNever(subsAfter, subj) == FALSE

TopicActivates(subsAfter, subj) ==
    Cardinality(subsAfter) = 1 /\ subj # Nobody

(* if not self._subscriptions and self._subject is not None *)
TopicDeactivatesNever(subsAfter, subj) == FALSE

TopicDeactivates(subsAfter, subj) == subsAfter = {} /\ subj # Nobody

(* if proxy._subject is not None: raise ValueError *)
AlreadyAssignedNever(subj) == FALSE

AlreadyAssigned(subj) == subj # Nobody

(* the observation of one call: which operation, whether it returned     *)
(* normally (for `in`: its answer), what the sinks got                   *)
HubCall(op, ok, got) == [op |-> op, ok |-> ok, got |-> got]

(* self._proxies[topic], lines 167, 170 and 177: the defaultdict inserts  *)
(* a Topic for a key it does not hold                                    *)
DefaultDictGetItemNoInsert(px, n) == px

DefaultDictGetItem(px, n) == px \cup {n}

(* Hub.__getitem__, lines 169-170: the defaultdict creates the Topic *)
GetItem(n) ==
    /\ proxies' = DefaultDictGetItem(proxies, n)
    /\ hlast' = HubCall("getitem", TRUE, NothingGot)
    /\ UNCHANGED <<tSubs, subject, meta, vState, vSubs>>
    /\ UNCHANGED notHub

(* Hub.__contains__, lines 172-173; hlast.ok is the answer *)
Contains(n) ==
    /\ hlast' = HubCall("contains", n \in proxies, NothingGot)
    /\ UNCHANGED <<proxies, tSubs, subject, meta, vState, vSubs>>
    /\ UNCHANGED notHub

(* Topic.subscribe, lines 120-125 *)
TopicSubscribe(n, s) ==
    /\ n \in proxies
    /\ CoreSubscribeOk(tSubs[n], s)
    /\ tSubs' = [tSubs EXCEPT ![n] = CoreSubscribe(@, s)]
    /\ IF TopicActivates(tSubs'[n], subject[n])
       THEN LET r == ValueSubscribe(subject[n], n, tSubs', vState)
            IN /\ vSubs' = [vSubs EXCEPT ![subject[n]] = r.subs]
               /\ hlast' = HubCall("subscribe", r.ok, r.got)
       ELSE /\ vSubs' = vSubs
            /\ hlast' = HubCall("subscribe", TRUE, NothingGot)
    /\ UNCHANGED <<proxies, subject, meta, vState>>
    /\ UNCHANGED notHub

(* Topic.subscribe: Publisher.subscribe raises, line 121 *)
TopicSubscribeError(n, s) ==
    /\ n \in proxies
    /\ ~CoreSubscribeOk(tSubs[n], s)
    /\ hlast' = HubCall("subscribe", FALSE, NothingGot)
    /\ UNCHANGED <<proxies, tSubs, subject, meta, vState, vSubs>>
    /\ UNCHANGED notHub

(* Topic.unsubscribe, lines 127-130 *)
TopicUnsubscribe(n, s) ==
    /\ n \in proxies
    /\ CoreUnsubscribeOk(tSubs[n], s)
    /\ tSubs' = [tSubs EXCEPT ![n] = CoreUnsubscribe(@, s)]
    /\ IF TopicDeactivates(tSubs'[n], subject[n])
       THEN LET r == ValueUnsubscribe(subject[n], n)
            IN /\ vSubs' = [vSubs EXCEPT ![subject[n]] = r.subs]
               /\ hlast' = HubCall("unsubscribe", r.ok, NothingGot)
       ELSE /\ vSubs' = vSubs
            /\ hlast' = HubCall("unsubscribe", TRUE, NothingGot)
    /\ UNCHANGED <<proxies, subject, meta, vState>>
    /\ UNCHANGED notHub

(* Topic.unsubscribe: Publisher.unsubscribe raises, line 128 *)
TopicUnsubscribeError(n, s) ==
    /\ n \in proxies
    /\ ~CoreUnsubscribeOk(tSubs[n], s)
    /\ hlast' = HubCall("unsubscribe", FALSE, NothingGot)
    /\ UNCHANGED <<proxies, tSubs, subject, meta, vState, vSubs>>
    /\ UNCHANGED notHub

(* the Value p is the subject of some topic *)
InUse(p) == \E n \in Names : subject[n] = p

(* Value(init) | hub.publish(n, m), or p | hub.publish(n, m) for a Value  *)
(* p in use: Value.__init__ (value.py lines 24-26), Hub.publish and its   *)
(* _build (hub.py lines 175-196)                                          *)
Bind(n, p, m, init) ==
    /\ ~AlreadyAssigned(subject[n])
    /\ IF InUse(p) THEN init = vState[p] ELSE TRUE
    /\ vState' = [vState EXCEPT ![p] = init]
    /\ proxies' = DefaultDictGetItem(proxies, n)
    /\ subject' = [subject EXCEPT ![n] = p]
    /\ IF Cardinality(tSubs[n]) # 0
       THEN LET r == ValueSubscribe(p, n, tSubs, vState')
            IN /\ vSubs' = [vSubs EXCEPT ![p] = r.subs]
               /\ hlast' = HubCall("bind", r.ok, r.got)
               /\ meta' = IF r.ok /\ m # "none"
                          THEN [meta EXCEPT ![n] = m] ELSE meta
       ELSE /\ vSubs' = vSubs
            /\ hlast' = HubCall("bind", TRUE, NothingGot)
            /\ meta' = IF m # "none" THEN [meta EXCEPT ![n] = m] ELSE meta
    /\ UNCHANGED tSubs
    /\ UNCHANGED notHub

(* hub.publish(n, m)(p) raising 'Topic is already assigned', line 182 *)
BindError(n, p) ==
    /\ AlreadyAssigned(subject[n])
    /\ proxies' = DefaultDictGetItem(proxies, n)
    /\ hlast' = HubCall("bind", FALSE, NothingGot)
    /\ UNCHANGED <<tSubs, subject, meta, vState, vSubs>>
    /\ UNCHANGED notHub

(* Value p .emit(v), value.py lines 32-34: Publisher.notify(v) *)
ValueEmit(p, v) ==
    /\ InUse(p)
    /\ vState' = [vState EXCEPT ![p] = v]
    /\ hlast' = HubCall("notify", TRUE,
                        ValueFanOut(NothingGot, tSubs, vSubs[p], 1, v))
    /\ UNCHANGED <<proxies, tSubs, subject, meta, vSubs>>
    /\ UNCHANGED notHub

(* hub[n].emit(v) by a caller that is not the subject, lines 138-139:    *)
(* self._subject.emit(v)                                                 *)
TopicEmit(n, v) ==
    /\ n \in proxies
    /\ subject[n] # Nobody
    /\ vState' = [vState EXCEPT ![subject[n]] = v]
    /\ hlast' = HubCall("emit", TRUE,
                        ValueFanOut(NothingGot, tSubs, vSubs[subject[n]], 1, v))
    /\ UNCHANGED <<proxies, tSubs, subject, meta, vSubs>>
    /\ UNCHANGED notHub

(* hub[n].emit(v) on a topic without subject, lines 133-135: TypeError *)
TopicEmitError(n, v) ==
    /\ n \in proxies
    /\ subject[n] = Nobody
    /\ hlast' = HubCall("emit", FALSE, NothingGot)
    /\ UNCHANGED <<proxies, tSubs, subject, meta, vState, vSubs>>
    /\ UNCHANGED notHub

(* Hub.__init__, lines 166-167, Topic.__init__, lines 116-118, and the   *)
(* Values as constructed: Value(init), value.py lines 24-26              *)
InitHub ==
    /\ proxies = {}
    /\ tSubs = [n \in Names |-> {}]
    /\ subject = [n \in Names |-> Nobody]
    /\ meta = [n \in Names |-> "none"]
    /\ vState = [p \in Subjects |-> NONE]
    /\ vSubs = [p \in Subjects |-> <<>>]
    /\ hlast = HubCall("none", TRUE, NothingGot)

NextHub ==
    \/ \E n \in Names : GetItem(n)
    \/ \E n \in Names : Contains(n)
    \/ \E n \in Names, s \in Sinks : TopicSubscribe(n, s)
    \/ \E n \in Names, s \in Sinks : TopicSubscribeError(n, s)
    \/ \E n \in Names, s \in Sinks : TopicUnsubscribe(n, s)
    \/ \E n \in Names, s \in Sinks : TopicUnsubscribeError(n, s)
    \/ \E n \in Names, p \in Subjects, m \in Metas \cup {"none"},
          init \in {NONE} \cup Values : Bind(n, p, m, init)
    \/ \E n \in Names, p \in Subjects : BindError(n, p)
    \/ \E p \in Subjects, v \in Values : ValueEmit(p, v)
    \/ \E n \in Names, v \in Values : TopicEmit(n, v)
    \/ \E n \in Names, v \in Values : TopicEmitError(n, v)

(* ============ broqer/hub.py Topic.wait_for_assignment ================= *)
(* One topic, its binding and its waiters. A waiter is a running          *)
(* wait_for_assignment coroutine; the future created by waiter w's call   *)
(* is future w. Time is a clock in ticks: a timed waiter's timer of       *)
(* asyncio.wait_for fires once its timeout has elapsed.                   *)
Waiters == 1..NumWaiters
Timeouts == 1..MaxTimeout

(* timeout=None *)
NoTimeout == 0

(* the topic has no _assignment_future attribute *)
NoFuture == 0

(* the subject bound by Hub.publish *)
TheSubject == 1

IdleWaiter == [pc |-> "idle", fut |-> NoFuture, timed |-> FALSE, remaining |-> 0]

WaitCall(op, ok) == [op |-> op, ok |-> ok]

(* wait_for_assignment on an assigned topic, lines 150-151: returns *)
WaitAssigned(w) ==
    /\ waiters[w].pc = "idle"
    /\ aSubject # Nobody
    /\ waiters' = [waiters EXCEPT ![w].pc = "returned"]
    /\ wlast' = WaitCall("wait", TRUE)
    /\ UNCHANGED <<aSubject, aSubs, aSubscribed, aMeta, assignment_future,
                   futures>>
    /\ UNCHANGED notWait

(* wait_for_assignment on an unassigned topic, lines 152-158: a new       *)
(* future is created and stored in self._assignment_future, replacing     *)
(* the one stored there; the coroutine awaits the future it created       *)
WaitPending(w, t) ==
    /\ waiters[w].pc = "idle"
    /\ aSubject = Nobody
    /\ futures' = [futures EXCEPT ![w] = "pending"]
    /\ assignment_future' = w
    /\ waiters' = [waiters EXCEPT ![w] =
                      [pc |-> "waiting", fut |-> w, timed |-> t # NoTimeout,
                       remaining |-> t]]
    /\ wlast' = WaitCall("wait", TRUE)
    /\ UNCHANGED <<aSubject, aSubs, aSubscribed, aMeta>>
    /\ UNCHANGED notWait

(* time passes by one tick for every running timer *)
Tick ==
    /\ \E w \in Waiters : waiters[w].pc = "waiting" /\ waiters[w].remaining > 0
    /\ waiters' = [w \in Waiters |->
                      IF waiters[w].pc = "waiting" /\ waiters[w].remaining > 0
                      THEN [waiters[w] EXCEPT !.remaining = @ - 1]
                      ELSE waiters[w]]
    /\ wlast' = WaitCall("tick", TRUE)
    /\ UNCHANGED <<aSubject, aSubs, aSubscribed, aMeta, assignment_future,
                   futures>>
    /\ UNCHANGED notWait

(* what the timeout of asyncio.wait_for does to the awaited future: with  *)
(* asyncio.shield (line 158) the cancellation stops at the shield;        *)
(* without it the future itself is cancelled                              *)
TimeoutFutureUnshielded(st) == "cancelled"

TimeoutFuture(st) == st

(* the timer of asyncio.wait_for fires before the future is done, lines   *)
(* 157-158: the waiter gets asyncio.TimeoutError                          *)
Timeout(w) ==
    /\ waiters[w].pc = "waiting"
    /\ waiters[w].timed
    /\ waiters[w].remaining = 0
    /\ futures[waiters[w].fut] = "pending"
    /\ futures' = [futures EXCEPT ![waiters[w].fut] = TimeoutFuture(@)]
    /\ waiters' = [waiters EXCEPT ![w].pc = "timeout"]
    /\ wlast' = WaitCall("timeout", FALSE)
    /\ UNCHANGED <<aSubject, aSubs, aSubscribed, aMeta, assignment_future>>
    /\ UNCHANGED notWait

(* the awaited future is done, lines 155, 157: the waiter returns *)
Resume(w) ==
    /\ waiters[w].pc = "waiting"
    /\ futures[waiters[w].fut] = "done"
    /\ waiters' = [waiters EXCEPT ![w].pc = "returned"]
    /\ wlast' = WaitCall("resume", TRUE)
    /\ UNCHANGED <<aSubject, aSubs, aSubscribed, aMeta, assignment_future,
                   futures>>
    /\ UNCHANGED notWait

(* the futures that _build resolves, lines 192-193: the one stored in     *)
(* proxy._assignment_future                                               *)
ResolvedFuturesNone(af) == {}

ResolvedFutures(af) == IF af = NoFuture THEN {} ELSE {af}

(* hub.publish(name, m)(subject) on the unassigned topic, lines 179-195;  *)
(* set_result raises InvalidStateError on a future that is not pending    *)
WaitBind(m) ==
    /\ aSubject = Nobody
    /\ aSubject' = TheSubject
    /\ aSubscribed' = (Cardinality(aSubs) # 0)
    /\ aMeta' = IF m # "none" THEN m ELSE aMeta
    /\ LET res == ResolvedFutures(assignment_future)
       IN /\ futures' = [f \in Waiters |->
                            IF f \in res /\ futures[f] = "pending"
                            THEN "done" ELSE futures[f]]
          /\ wlast' = WaitCall("bind",
                               \A f \in res : futures[f] = "pending")
    /\ UNCHANGED <<aSubs, assignment_future, waiters>>
    /\ UNCHANGED notWait

(* hub.publish(name, m)(subject) on the assigned topic, lines 181-182 *)
WaitBindError ==
    /\ aSubject # Nobody
    /\ wlast' = WaitCall("bind", FALSE)
    /\ UNCHANGED <<aSubject, aSubs, aSubscribed, aMeta, assignment_future,
                   futures, waiters>>
    /\ UNCHANGED notWait

(* Topic.subscribe, lines 120-125 *)
WaitSubscribe(s) ==
    /\ CoreSubscribeOk(aSubs, s)
    /\ aSubs' = CoreSubscribe(aSubs, s)
    /\ aSubscribed' = IF TopicActivates(aSubs', aSubject)
                      THEN TRUE ELSE aSubscribed
    /\ wlast' = WaitCall("subscribe", TRUE)
    /\ UNCHANGED <<aSubject, aMeta, assignment_future, futures, waiters>>
    /\ UNCHANGED notWait

(* Topic.unsubscribe, lines 127-130 *)
WaitUnsubscribe(s) ==
    /\ CoreUnsubscribeOk(aSubs, s)
    /\ aSubs' = CoreUnsubscribe(aSubs, s)
    /\ aSubscribed' = IF TopicDeactivates(aSubs', aSubject)
                      THEN FALSE ELSE aSubscribed
    /\ wlast' = WaitCall("unsubscribe", TRUE)
    /\ UNCHANGED <<aSubject, aMeta, assignment_future, futures, waiters>>
    /\ UNCHANGED notWait

(* Topic.__init__, lines 116-118; no coroutine started *)
InitWait ==
    /\ aSubject = Nobody
    /\ aSubs = {}
    /\ aSubscribed = FALSE
    /\ aMeta = "none"
    /\ assignment_future = NoFuture
    /\ futures = [f \in Waiters |-> "none"]
    /\ waiters = [w \in Waiters |-> IdleWaiter]
    /\ wlast = WaitCall("none", TRUE)

NextWait ==
    \/ \E w \in Waiters : WaitAssigned(w)
    \/ \E w \in Waiters, t \in Timeouts \cup {NoTimeout} : WaitPending(w, t)
    \/ Tick
    \/ \E w \in Waiters : Timeout(w)
    \/ \E w \in Waiters : Resume(w)
    \/ \E m \in Metas \cup {"none"} : WaitBind(m)
    \/ WaitBindError
    \/ \E s \in Sinks : WaitSubscribe(s)
    \/ \E s \in Sinks : WaitUnsubscribe(s)

(* the event loop runs due timers and the callbacks of done futures *)
FairWait ==
    /\ WF_vars(Tick)
    /\ \A w \in Waiters : WF_vars(Timeout(w)) /\ WF_vars(Resume(w))

(* ========= broqer/op/cache.py Cache, broqer/op/distinct.py Distinct ==== *)
(* One operator, a Cache or a Distinct, over one upstream publisher of    *)
(* broqer/core.py: a Publisher (no replay on subscribe) or a              *)
(* CachedPublisher (replays its cache on subscribe, swallows an emit      *)
(* equal to its cache). emit( *args) carries a tuple of arguments.        *)
(* Distinct.emit forwards with self.notify( *args), the fan-out to the    *)
(* subscribers that core.py names _emit.                                  *)
Tuples == UNION {[1..k -> Values] : k \in 1..MaxArity}

(* None in the place of a tuple *)
NoTuple == <<>>

NothingReceived == [s \in Sinks |-> <<>>]

(* Publisher._emit( *args), core.py lines 59-62, on the operator's set*)
Forward(got, subs, args) ==
    [s \in Sinks |-> IF s \in CoreEmitTargets(subs)
                     THEN Append(got[s], args) ELSE got[s]]

(* Distinct.emit, line 58: if args != self._state *)
DistinctDiffersAlways(args, st) == TRUE

DistinctDiffers(args, st) == args # st

(* Cache.emit, lines 23-25, and Distinct.emit, lines 55-60: the cache     *)
(* after the emit and what the sinks have got                             *)
OperatorEmit(kind, cache, subs, got, args) ==
    IF kind = "Cache" \/ DistinctDiffers(args, cache)
    THEN [cache |-> args, got |-> Forward(got, subs, args)]
    ELSE [cache |-> cache, got |-> got]

(* CachedPublisher.subscribe, core.py lines 86-90: replays the cache;     *)
(* Publisher.subscribe, lines 46-51, replays nothing                      *)
SourceReplays(kind, cache) == kind = "CachedPublisher" /\ cache # NoTuple

(* Cache.subscribe, line 18: if self._cache is None;                      *)
(* Distinct.subscribe, line 49: if self._state is None and state is not   *)
(* None. cache is the value after super().subscribe, saved the one before *)
RestoresAlways(kind, cache, saved) == TRUE

Restores(kind, cache, saved) ==
    IF kind = "Cache" THEN cache = NoTuple
    ELSE cache = NoTuple /\ saved # NoTuple

CacheCall(op, ok, args, got) ==
    [op |-> op, ok |-> ok, args |-> args, got |-> got, order |-> <<>>]

(* the order of a subscribe call: Operator.subscribe subscribes to the   *)
(* upstream (_operator.py line 15) when the subscriber is the first; the *)
(* upstream's replay, if any, is forwarded from inside that call; the    *)
(* operator's own replay follows (cache.py line 20, distinct.py line 52) *)
SubscribeOrderReplayFirst(activated, forwarded, restored) ==
    (IF restored THEN <<"emit">> ELSE <<>>)
    \o (IF activated THEN <<"activate">> ELSE <<>>)
    \o [k \in 1..forwarded |-> "emit"]

SubscribeOrder(activated, forwarded, restored) ==
    (IF activated THEN <<"activate">> ELSE <<>>)
    \o [k \in 1..forwarded |-> "emit"]
    \o (IF restored THEN <<"emit">> ELSE <<>>)

CacheSubscribeCall(ok, got, order) ==
    [CacheCall("subscribe", ok, NoTuple, got) EXCEPT !.order = order]

(* Cache.subscribe, lines 14-21, and Distinct.subscribe, lines 45-53,     *)
(* with Operator.subscribe, _operator.py lines 12-16. subscriber.emit(    *)
(* *None) of a Cache whose cache is None raises TypeError.                *)
CacheSubscribe(s) ==
    /\ CoreSubscribeOk(cSubs, s)
    /\ cSubs' = CoreSubscribe(cSubs, s)
    /\ srcSubscribed' = (srcSubscribed \/ FirstSubscription(cSubs'))
    /\ LET activated == FirstSubscription(cSubs')
           replayed == activated /\ SourceReplays(srcKind, srcCache)
           r == IF replayed
                THEN OperatorEmit(opKind, NoTuple, cSubs', NothingReceived,
                                  srcCache)
                ELSE [cache |-> NoTuple, got |-> NothingReceived]
           forwarded == Len(r.got[s])
       IN IF Restores(opKind, r.cache, opCache)
          THEN IF opCache = NoTuple
               THEN /\ opCache' = opCache
                    /\ clast' = CacheSubscribeCall(FALSE, r.got,
                                     SubscribeOrder(activated, forwarded, FALSE))
               ELSE /\ opCache' = opCache
                    /\ clast' = CacheSubscribeCall(TRUE,
                                     [r.got EXCEPT ![s] = Append(@, opCache)],
                                     SubscribeOrder(activated, forwarded, TRUE))
          ELSE /\ opCache' = r.cache
               /\ clast' = CacheSubscribeCall(TRUE, r.got,
                                SubscribeOrder(activated, forwarded, FALSE))
    /\ UNCHANGED <<opKind, srcKind, srcCache>>
    /\ UNCHANGED notCache

(* subscribe of a subscriber that is in the set: Publisher.subscribe      *)
(* raises after the cache was replaced by None (cache.py 15-17,           *)
(* distinct.py 46-48)                                                     *)
CacheSubscribeError(s) ==
    /\ ~CoreSubscribeOk(cSubs, s)
    /\ opCache' = NoTuple
    /\ clast' = CacheCall("subscribe", FALSE, NoTuple, NothingReceived)
    /\ UNCHANGED <<opKind, cSubs, srcKind, srcCache, srcSubscribed>>
    /\ UNCHANGED notCache

(* Operator.unsubscribe, _operator.py lines 18-21 *)
CacheUnsubscribe(s) ==
    /\ CoreUnsubscribeOk(cSubs, s)
    /\ cSubs' = CoreUnsubscribe(cSubs, s)
    /\ srcSubscribed' = (srcSubscribed /\ ~LastSubscriberLeft(cSubs'))
    /\ clast' = CacheCall("unsubscribe", TRUE, NoTuple, NothingReceived)
    /\ UNCHANGED <<opKind, opCache, srcKind, srcCache>>
    /\ UNCHANGED notCache

CacheUnsubscribeError(s) ==
    /\ ~CoreUnsubscribeOk(cSubs, s)
    /\ clast' = CacheCall("unsubscribe", FALSE, NoTuple, NothingReceived)
    /\ UNCHANGED <<opKind, opCache, cSubs, srcKind, srcCache, srcSubscribed>>
    /\ UNCHANGED notCache

(* the upstream's _emit( *args) passes the emit on: Publisher._emit,      *)
(* core.py lines 59-62, always; CachedPublisher._emit, lines 92-95, when  *)
(* the tuple differs from its cache                                       *)
SourcePasses(kind, cache, args) == kind = "Publisher" \/ cache # args

(* the upstream emits args; the operator's emit runs when it is           *)
(* subscribed. clast.ok tells that the operator's emit ran.               *)
SourceEmit(args) ==
    /\ srcCache' = IF srcKind = "CachedPublisher" THEN args ELSE srcCache
    /\ IF srcSubscribed /\ SourcePasses(srcKind, srcCache, args)
       THEN LET r == OperatorEmit(opKind, opCache, cSubs, NothingReceived, args)
            IN /\ opCache' = r.cache
               /\ clast' = CacheCall("emit", TRUE, args, r.got)
       ELSE /\ opCache' = opCache
            /\ clast' = CacheCall("emit", FALSE, args, NothingReceived)
    /\ UNCHANGED <<opKind, cSubs, srcKind, srcSubscribed>>
    /\ UNCHANGED notCache

(* CachedPublisher.clear_cache, core.py lines 97-98 *)
SourceClearCache ==
    /\ srcKind = "CachedPublisher"
    /\ srcCache' = NoTuple
    /\ clast' = CacheCall("clear_cache", TRUE, NoTuple, NothingReceived)
    /\ UNCHANGED <<opKind, opCache, cSubs, srcKind, srcSubscribed>>
    /\ UNCHANGED notCache

(* Cache(publisher, *start_values) with at least one start value,         *)
(* cache.py lines 9-12; Distinct(publisher, *init), distinct.py 38-43;    *)
(* Publisher() and CachedPublisher( *init), core.py 43-44 and 79-84       *)
InitCache ==
    /\ opKind \in {"Cache", "Distinct"}
    /\ opCache \in IF opKind = "Cache" THEN Tuples ELSE Tuples \cup {NoTuple}
    /\ cSubs = {}
    /\ srcKind \in {"Publisher", "CachedPublisher"}
    /\ srcCache \in IF srcKind = "Publisher" THEN {NoTuple}
                    ELSE Tuples \cup {NoTuple}
    /\ srcSubscribed = FALSE
    /\ clast = CacheCall("none", TRUE, NoTuple, NothingReceived)

(* the other components' view of this one: a Distinct without state over  *)
(* a Publisher, never used                                                *)
IdleCache ==
    /\ InitCache
    /\ opKind = "Distinct"
    /\ opCache = NoTuple
    /\ srcKind = "Publisher"

NextCache ==
    \/ \E s \in Sinks : CacheSubscribe(s)
    \/ \E s \in Sinks : CacheSubscribeError(s)
    \/ \E s \in Sinks : CacheUnsubscribe(s)
    \/ \E s \in Sinks : CacheUnsubscribeError(s)
    \/ \E args \in Tuples : SourceEmit(args)
    \/ SourceClearCache

(* ============== broqer/op/sliding_window.py SlidingWindow ============= *)
(* One SlidingWindow over a Publisher or a CachedPublisher of            *)
(* broqer/core.py. The upstream's emits reach it while it is subscribed, *)
(* and a CachedPublisher replays its cache when the SlidingWindow        *)
(* subscribes to it; at most MaxFed values are fed.                      *)
Sizes == 1..MaxSize
WindowValues == 1..MaxFed

(* deque(maxlen=size).append(v), lines 15 and 25: the oldest value is     *)
(* dropped when the deque is full                                         *)
DequeAppendUnbounded(buf, n, v) == Append(buf, v)

DequeAppend(buf, n, v) ==
    IF Len(buf) = n THEN Append(Tail(buf), v) ELSE Append(buf, v)

(* if len(self._cache)==self._cache.maxlen or self._emit_partial,         *)
(* lines 20 and 26                                                        *)
WindowEmitsAlways(buf, n, partial) == TRUE

WindowEmits(buf, n, partial) == Len(buf) = n \/ partial

WindowCall(op, ok, got) == [op |-> op, ok |-> ok, got |-> got]

(* SlidingWindow.emit, lines 24-27: the deque after the append and what *)
(* the subscribers in subs have got                                     *)
SlidingWindowEmit(buf, n, partial, subs, v) ==
    LET w == DequeAppend(buf, n, v)
    IN [window |-> w,
        sends |-> WindowEmits(w, n, partial),
        got |-> IF WindowEmits(w, n, partial)
                THEN Forward(NothingReceived, subs, w)
                ELSE NothingReceived]

(* SlidingWindow.subscribe, lines 18-22, with Operator.subscribe,       *)
(* _operator.py lines 12-16: the subscriber is added, the first one     *)
(* makes the SlidingWindow subscribe to its upstream, whose replay      *)
(* (CachedPublisher.subscribe, core.py lines 88-89) runs                *)
(* SlidingWindow.emit; then lines 20-21 emit the deque to the subscriber*)
WindowSubscribe(s) ==
    /\ CoreSubscribeOk(swSubs, s)
    /\ swSubs' = CoreSubscribe(swSubs, s)
    /\ swSubscribed' = (swSubscribed \/ FirstSubscription(swSubs'))
    /\ LET replayed == /\ FirstSubscription(swSubs')
                        /\ SourceReplays(swSrcKind, swSrcCache)
       IN IF replayed
          THEN LET r == SlidingWindowEmit(window, maxlen, emit_partial,
                                          swSubs', swSrcCache[1])
               IN /\ Len(fed) < MaxFed
                  /\ fed' = Append(fed, swSrcCache[1])
                  /\ window' = r.window
                  /\ sent' = IF r.sends THEN Append(sent, r.window) ELSE sent
                  /\ swlast' = WindowCall("subscribe", TRUE,
                         IF WindowEmits(r.window, maxlen, emit_partial)
                         THEN [r.got EXCEPT ![s] = Append(@, r.window)]
                         ELSE r.got)
          ELSE /\ swlast' = WindowCall("subscribe", TRUE,
                         IF WindowEmits(window, maxlen, emit_partial)
                         THEN [NothingReceived EXCEPT ![s] = <<window>>]
                         ELSE NothingReceived)
               /\ UNCHANGED <<window, fed, sent>>
    /\ UNCHANGED <<maxlen, emit_partial, swSrcKind, swSrcCache>>
    /\ UNCHANGED notWindow

WindowSubscribeError(s) ==
    /\ ~CoreSubscribeOk(swSubs, s)
    /\ swlast' = WindowCall("subscribe", FALSE, NothingReceived)
    /\ UNCHANGED <<maxlen, emit_partial, window, swSubs, swSubscribed,
                   swSrcKind, swSrcCache, fed, sent>>
    /\ UNCHANGED notWindow

(* Operator.unsubscribe, _operator.py lines 18-21 *)
WindowUnsubscribe(s) ==
    /\ CoreUnsubscribeOk(swSubs, s)
    /\ swSubs' = CoreUnsubscribe(swSubs, s)
    /\ swSubscribed' = (swSubscribed /\ ~LastSubscriberLeft(swSubs'))
    /\ swlast' = WindowCall("unsubscribe", TRUE, NothingReceived)
    /\ UNCHANGED <<maxlen, emit_partial, window, swSrcKind, swSrcCache, fed,
                   sent>>
    /\ UNCHANGED notWindow

WindowUnsubscribeError(s) ==
    /\ ~CoreUnsubscribeOk(swSubs, s)
    /\ swlast' = WindowCall("unsubscribe", FALSE, NothingReceived)
    /\ UNCHANGED <<maxlen, emit_partial, window, swSubs, swSubscribed,
                   swSrcKind, swSrcCache, fed, sent>>
    /\ UNCHANGED notWindow

(* the upstream's _emit(v) stores v when it is a CachedPublisher,       *)
(* core.py lines 93-94                                                  *)
WindowSourceCache(kind, cache, v) ==
    IF kind = "CachedPublisher" THEN <<v>> ELSE cache

(* the upstream emits v to the subscribed SlidingWindow:                  *)
(* SlidingWindow.emit, lines 24-27                                        *)
WindowEmit(v) ==
    /\ swSubscribed
    /\ SourcePasses(swSrcKind, swSrcCache, <<v>>)
    /\ Len(fed) < MaxFed
    /\ fed' = Append(fed, v)
    /\ swSrcCache' = WindowSourceCache(swSrcKind, swSrcCache, v)
    /\ window' = DequeAppend(window, maxlen, v)
    /\ IF WindowEmits(window', maxlen, emit_partial)
       THEN /\ sent' = Append(sent, window')
            /\ swlast' = WindowCall("emit", TRUE,
                                    Forward(NothingReceived, swSubs, window'))
       ELSE /\ sent' = sent
            /\ swlast' = WindowCall("emit", TRUE, NothingReceived)
    /\ UNCHANGED <<maxlen, emit_partial, swSubs, swSubscribed, swSrcKind>>
    /\ UNCHANGED notWindow

(* the upstream emits and the emit does not reach the SlidingWindow: it   *)
(* is not subscribed (Publisher._emit, core.py lines 59-62), or the       *)
(* CachedPublisher holds the same value (line 93)                         *)
WindowMissedEmit(v) ==
    /\ ~swSubscribed \/ ~SourcePasses(swSrcKind, swSrcCache, <<v>>)
    /\ swSrcCache' = WindowSourceCache(swSrcKind, swSrcCache, v)
    /\ swlast' = WindowCall("emit", FALSE, NothingReceived)
    /\ UNCHANGED <<maxlen, emit_partial, window, swSubs, swSubscribed,
                   swSrcKind, fed, sent>>
    /\ UNCHANGED notWindow

(* SlidingWindow(publisher, size, emit_partial) with size > 0, lines 10-16 *)
InitWindow ==
    /\ maxlen \in Sizes
    /\ emit_partial \in BOOLEAN
    /\ window = <<>>
    /\ swSubs = {}
    /\ swSubscribed = FALSE
    /\ swSrcKind \in {"Publisher", "CachedPublisher"}
    /\ swSrcCache \in IF swSrcKind = "Publisher" THEN {NoTuple}
                      ELSE {NoTuple} \cup {<<v>> : v \in WindowValues}
    /\ fed = <<>>
    /\ sent = <<>>
    /\ swlast = WindowCall("none", TRUE, NothingReceived)

(* the other components' view of this one: SlidingWindow(Publisher(), 1), *)
(* never used                                                             *)
IdleWindow ==
    InitWindow /\ maxlen = 1 /\ ~emit_partial /\ swSrcKind = "Publisher"

NextWindow ==
    \/ \E s \in Sinks : WindowSubscribe(s)
    \/ \E s \in Sinks : WindowSubscribeError(s)
    \/ \E s \in Sinks : WindowUnsubscribe(s)
    \/ \E s \in Sinks : WindowUnsubscribeError(s)
    \/ \E v \in WindowValues : WindowEmit(v)
    \/ \E v \in WindowValues : WindowMissedEmit(v)

(* ===================== broqer.op.CombineLatest ======================== *)
(* CombineLatest( *publishers, emit_on=..., map_=...) is a MultiOperator  *)
(* (_operator.py lines 24-40) over Publishers that keep a state and     *)
(* replay it to a new subscriber (publisher.py). Its own emit is        *)
(* described by its contract: it stores the latest value of each        *)
(* publisher and emits their combination, or map_ of it, when the       *)
(* publisher that updated is in emit_on and every publisher has a value.*)
SourceIds == 1..NumSources
Collectors == 1..NumCollectors
CombineValues == 0..MaxCombine

(* map_: none given, lambda a,b: a+b, lambda a,b: NONE if a>b else a-b  *)
(* (test_op_combine_latest.py lines 13, 15, 25); the lambdas take two   *)
(* arguments, so they go with two publishers                            *)
Maps == {"tuple", "add", "guard"}

(* a publisher that has not emitted yet holds NONE; a value v is <<v>>  *)
NotEmitted == <<>>

(* an emission: NONE, or a value (a tuple, or <<x>> for the scalar x a  *)
(* map_ returned)                                                       *)
NoResult == [some |-> FALSE, val |-> <<>>]

Result(t) == [some |-> TRUE, val |-> t]

(* no stored value is NONE *)
Complete(n, lat) == \A i \in 1..n : lat[i] # NotEmitted

(* the tuple of the latest values in the order of the publishers; a     *)
(* publisher without a value contributes nothing                        *)
RECURSIVE Combination(_, _)
Combination(n, lat) ==
    IF n = 0 THEN <<>> ELSE Combination(n - 1, lat) \o lat[n]

(* the publisher that updated is in the trigger set *)
TriggersAlways(trig, i) == TRUE

Triggers(trig, i) == i \in trig

(* map_( *combination), or the combination itself without a map_        *)
MapResult(map, t) ==
    IF map = "tuple" THEN Result(t)
    ELSE IF map = "add" THEN Result(<<t[1] + t[2]>>)
    ELSE IF t[1] > t[2] THEN NoResult ELSE Result(<<t[1] - t[2]>>)

(* what each Collector subscribed to the CombineLatest received *)
NothingCollected == [s \in Collectors |-> <<>>]

(* for s in the subscriptions: s.emit(value, who=self) *)
Collect(got, subs, val) ==
    [s \in Collectors |-> IF s \in CoreEmitTargets(subs)
                          THEN Append(got[s], val) ELSE got[s]]

(* the combination taken before the value is stored *)
CombineLatestEmitStale(n, trig, map, lat, st, i, v, again) ==
    LET lat2 == [lat EXCEPT ![i] = <<v>>]
        res == IF Triggers(trig, i) /\ Complete(n, lat)
               THEN MapResult(map, Combination(n, lat))
               ELSE NoResult
        out == IF res.some /\ (res # st \/ again) THEN res ELSE NoResult
    IN  [latest |-> lat2, state |-> IF out.some THEN out ELSE st,
         out |-> out]

(* CombineLatest.emit(value, who): store the value; nothing more when   *)
(* who is outside emit_on, a publisher has no value yet or map_ yields  *)
(* NONE. A result equal to the last emission is emitted again or not    *)
(* (again): the test vectors of lines 10-15 show no second emission,    *)
(* the contract does not say.                                           *)
CombineLatestEmit(n, trig, map, lat, st, i, v, again) ==
    LET lat2 == [lat EXCEPT ![i] = <<v>>]
        res == IF Triggers(trig, i) /\ Complete(n, lat2)
               THEN MapResult(map, Combination(n, lat2))
               ELSE NoResult
        out == IF res.some /\ (res # st \/ again) THEN res ELSE NoResult
    IN  [latest |-> lat2, state |-> IF out.some THEN out ELSE st,
         out |-> out]

(* for _publisher in self._publishers: _publisher.subscribe(self),      *)
(* _operator.py lines 32-33, from position i on: a publisher whose      *)
(* state is not NONE replays it to the CombineLatest (publisher.py      *)
(* subscribe), which takes it as an update                              *)
RECURSIVE SubscribeSources(_, _, _, _, _, _, _)
SubscribeSources(n, trig, map, src, acc, i, again) ==
    IF i > n THEN acc
    ELSE IF src[i] = NotEmitted
    THEN SubscribeSources(n, trig, map, src, acc, i + 1, again)
    ELSE LET e == CombineLatestEmit(n, trig, map, acc.latest, acc.state, i,
                                    src[i][1], again)
         IN  SubscribeSources(n, trig, map, src,
                 [latest |-> e.latest, state |-> e.state,
                  fed |-> Append(acc.fed, <<i, src[i][1]>>),
                  sent |-> IF e.out.some THEN Append(acc.sent, e.out.val)
                           ELSE acc.sent,
                  got |-> IF e.out.some
                          THEN Collect(acc.got, acc.subs, e.out.val)
                          ELSE acc.got,
                  subs |-> acc.subs],
                 i + 1, again)

(* how many publishers would replay their state *)
Replaying(n, src) == Cardinality({i \in 1..n : src[i] # NotEmitted})

CombineCall(op, ok, who, val, got) ==
    [op |-> op, ok |-> ok, who |-> who, val |-> val, got |-> got]

(* dut.subscribe(subscriber), _operator.py lines 29-34: the subscriber  *)
(* is added and gets the replay of the CombineLatest's state (if any);  *)
(* the first subscriber makes the CombineLatest subscribe to all its    *)
(* publishers                                                           *)
CombineSubscribe(s) ==
    /\ CoreSubscribeOk(clSubs, s)
    /\ clSubs' = CoreSubscribe(clSubs, s)
    /\ LET replay == IF combined.some
                     THEN Collect(NothingCollected, {s}, combined.val)
                     ELSE NothingCollected
           acc0 == [latest |-> latest, state |-> combined, fed |-> clFed,
                    sent |-> clSent, got |-> replay, subs |-> clSubs']
       IN  IF FirstSubscription(clSubs')
           THEN /\ Len(clFed) + clMissed + Replaying(sources, srcState)
                      <= MaxNotified
                /\ \E again \in BOOLEAN :
                     LET acc == SubscribeSources(sources, emit_on, map_,
                                    srcState, acc0, 1, again)
                     IN  /\ latest' = acc.latest
                         /\ combined' = acc.state
                         /\ clFed' = acc.fed
                         /\ clSent' = acc.sent
                         /\ cllast' = CombineCall("subscribe", TRUE, s, 0,
                                                  acc.got)
           ELSE /\ cllast' = CombineCall("subscribe", TRUE, s, 0, replay)
                /\ UNCHANGED <<latest, combined, clFed, clSent>>
    /\ UNCHANGED <<sources, emit_on, map_, srcState, clMissed>>
    /\ UNCHANGED notCombine

(* subscribing a second time raises, nothing changes *)
CombineSubscribeError(s) ==
    /\ ~CoreSubscribeOk(clSubs, s)
    /\ cllast' = CombineCall("subscribe", FALSE, 0, 0, NothingCollected)
    /\ UNCHANGED <<sources, emit_on, map_, latest, combined, clSubs,
                   srcState, clFed, clSent, clMissed>>
    /\ UNCHANGED notCombine

(* dut.unsubscribe(subscriber), _operator.py lines 36-40: when the last *)
(* subscriber left, the CombineLatest unsubscribes from its publishers  *)
(* (clSubs = {} is: not subscribed to them)                             *)
CombineUnsubscribe(s) ==
    /\ CoreUnsubscribeOk(clSubs, s)
    /\ clSubs' = CoreUnsubscribe(clSubs, s)
    /\ cllast' = CombineCall("unsubscribe", TRUE, 0, 0, NothingCollected)
    /\ UNCHANGED <<sources, emit_on, map_, latest, combined, srcState,
                   clFed, clSent, clMissed>>
    /\ UNCHANGED notCombine

CombineUnsubscribeError(s) ==
    /\ ~CoreUnsubscribeOk(clSubs, s)
    /\ cllast' = CombineCall("unsubscribe", FALSE, 0, 0, NothingCollected)
    /\ UNCHANGED <<sources, emit_on, map_, latest, combined, clSubs,
                   srcState, clFed, clSent, clMissed>>
    /\ UNCHANGED notCombine

(* source.notify(value), publisher.py notify: the state is set and the  *)
(* value goes to the CombineLatest if it is subscribed                  *)
SourceNotify(i, v) ==
    /\ i \in 1..sources
    /\ ~LastSubscriberLeft(clSubs)
    /\ Len(clFed) + clMissed < MaxNotified
    /\ srcState' = [srcState EXCEPT ![i] = <<v>>]
    /\ clFed' = Append(clFed, <<i, v>>)
    /\ \E again \in BOOLEAN :
         LET e == CombineLatestEmit(sources, emit_on, map_, latest,
                                    combined, i, v, again)
         IN  /\ latest' = e.latest
             /\ combined' = e.state
             /\ clSent' = IF e.out.some THEN Append(clSent, e.out.val)
                          ELSE clSent
             /\ cllast' = CombineCall("notify", TRUE, i, v,
                              IF e.out.some
                              THEN Collect(NothingCollected, clSubs, e.out.val)
                              ELSE NothingCollected)
    /\ UNCHANGED <<sources, emit_on, map_, clSubs, clMissed>>
    /\ UNCHANGED notCombine

(* source.notify(value) while the CombineLatest is not subscribed: only *)
(* the publisher's state changes                                        *)
SourceNotifyUnobserved(i, v) ==
    /\ i \in 1..sources
    /\ LastSubscriberLeft(clSubs)
    /\ Len(clFed) + clMissed < MaxNotified
    /\ clMissed' = clMissed + 1
    /\ srcState' = [srcState EXCEPT ![i] = <<v>>]
    /\ cllast' = CombineCall("notify", FALSE, 0, 0, NothingCollected)
    /\ UNCHANGED <<sources, emit_on, map_, latest, combined, clSubs, clFed,
                   clSent>>
    /\ UNCHANGED notCombine

(* CombineLatest( *publishers, emit_on, map_): no publisher has emitted;*)
(* without publishers the combination is the empty tuple from the start *)
InitCombine ==
    /\ sources \in 0..NumSources
    /\ emit_on \in SUBSET (1..sources)
    /\ map_ \in Maps
    /\ map_ # "tuple" => sources = 2
    /\ latest = [i \in SourceIds |-> NotEmitted]
    /\ combined = IF sources = 0 THEN Result(<<>>) ELSE NoResult
    /\ clSubs = {}
    /\ srcState = [i \in SourceIds |-> NotEmitted]
    /\ clFed = <<>>
    /\ clSent = <<>>
    /\ clMissed = 0
    /\ cllast = CombineCall("init", TRUE, 0, 0, NothingCollected)

IdleCombine == InitCombine /\ sources = 0

NextCombine ==
    \/ \E s \in Collectors : CombineSubscribe(s)
    \/ \E s \in Collectors : CombineSubscribeError(s)
    \/ \E s \in Collectors : CombineUnsubscribe(s)
    \/ \E s \in Collectors : CombineUnsubscribeError(s)
    \/ \E i \in SourceIds, v \in CombineValues : SourceNotify(i, v)
    \/ \E i \in SourceIds, v \in CombineValues : SourceNotifyUnobserved(i, v)

(* ============== broqer/core.py SubscriptionDisposable ================= *)
(* A disposable holds the publisher and the subscriber of the subscribe  *)
(* call that returned it; the disposables of one subscriber on the one   *)
(* publisher are alike, so a disposable is named by its subscriber.      *)
DisposeCall(op, ok, who) == [op |-> op, ok |-> ok, who |-> who]

(* publisher.subscribe(subscriber), lines 46-51, returns a disposable *)
PlainSubscribe(s) ==
    /\ CoreSubscribeOk(pSubs, s)
    /\ pSubs' = CoreSubscribe(pSubs, s)
    /\ disposables' = disposables \cup {s}
    /\ dlast' = DisposeCall("subscribe", TRUE, s)
    /\ UNCHANGED notDispose

PlainSubscribeError(s) ==
    /\ ~CoreSubscribeOk(pSubs, s)
    /\ dlast' = DisposeCall("subscribe", FALSE, s)
    /\ UNCHANGED <<pSubs, disposables>>
    /\ UNCHANGED notDispose

(* publisher.unsubscribe(subscriber), lines 53-57 *)
PlainUnsubscribe(s) ==
    /\ CoreUnsubscribeOk(pSubs, s)
    /\ pSubs' = CoreUnsubscribe(pSubs, s)
    /\ dlast' = DisposeCall("unsubscribe", TRUE, s)
    /\ UNCHANGED disposables
    /\ UNCHANGED notDispose

PlainUnsubscribeError(s) ==
    /\ ~CoreUnsubscribeOk(pSubs, s)
    /\ dlast' = DisposeCall("unsubscribe", FALSE, s)
    /\ UNCHANGED <<pSubs, disposables>>
    /\ UNCHANGED notDispose

(* disposable.dispose(), lines 38-39:                                    *)
(* self._publisher.unsubscribe(self._subscriber)                         *)
Dispose(d) ==
    /\ d \in disposables
    /\ CoreUnsubscribeOk(pSubs, d)
    /\ pSubs' = CoreUnsubscribe(pSubs, d)
    /\ dlast' = DisposeCall("dispose", TRUE, d)
    /\ UNCHANGED disposables
    /\ UNCHANGED notDispose

(* the unsubscribe of line 39 raises ValueError, which dispose lets pass *)
DisposeError(d) ==
    /\ d \in disposables
    /\ ~CoreUnsubscribeOk(pSubs, d)
    /\ dlast' = DisposeCall("dispose", FALSE, d)
    /\ UNCHANGED <<pSubs, disposables>>
    /\ UNCHANGED notDispose

(* Publisher.__init__, lines 43-44 *)
InitDispose ==
    /\ pSubs = {}
    /\ disposables = {}
    /\ dlast = DisposeCall("init", TRUE, Nobody)

NextDispose ==
    \/ \E s \in Subscribers : PlainSubscribe(s)
    \/ \E s \in Subscribers : PlainSubscribeError(s)
    \/ \E s \in Subscribers : PlainUnsubscribe(s)
    \/ \E s \in Subscribers : PlainUnsubscribeError(s)
    \/ \E d \in Subscribers : Dispose(d)
    \/ \E d \in Subscribers : DisposeError(d)

(* ========================== specifications ============================ *)
(* Each specification runs one component; the others stay as constructed. *)
IdlePublisher == InitPublisher /\ state = NONE

(* the Publisher of broqer/publisher.py *)
Init ==
    InitPublisher /\ InitOperator /\ InitHub /\ InitWait /\ IdleCache
    /\ IdleWindow /\ IdleCombine /\ InitDispose

Next == NextPublisher

Spec == Init /\ [][Next]_vars

(* Operator and MultiOperator over upstream publishers of broqer/core.py *)
InitOp ==
    InitOperator /\ IdlePublisher /\ InitHub /\ InitWait /\ IdleCache
    /\ IdleWindow /\ IdleCombine /\ InitDispose

SpecOperator == InitOp /\ [][NextOperator]_vars

(* Hub and Topic with Values as subjects *)
InitH ==
    InitHub /\ IdlePublisher /\ InitOperator /\ InitWait /\ IdleCache
    /\ IdleWindow /\ IdleCombine /\ InitDispose

SpecHub == InitH /\ [][NextHub]_vars

(* one Topic, its binding and its wait_for_assignment coroutines *)
InitW ==
    InitWait /\ IdlePublisher /\ InitOperator /\ InitHub /\ IdleCache
    /\ IdleWindow /\ IdleCombine /\ InitDispose

SpecWait == InitW /\ [][NextWait]_vars /\ FairWait

(* a Cache or a Distinct over a Publisher or a CachedPublisher *)
InitC ==
    InitCache /\ IdlePublisher /\ InitOperator /\ InitHub /\ InitWait
    /\ IdleWindow /\ IdleCombine /\ InitDispose

SpecCache == InitC /\ [][NextCache]_vars

(* a SlidingWindow over a Publisher *)
InitSW ==
    InitWindow /\ swSrcKind = "Publisher" /\ IdlePublisher /\ InitOperator /\ InitHub /\ InitWait
    /\ IdleCache /\ IdleCombine /\ InitDispose

SpecWindow == InitSW /\ [][NextWindow]_vars

(* a SlidingWindow over a CachedPublisher *)
InitSWC ==
    InitWindow /\ swSrcKind = "CachedPublisher" /\ IdlePublisher
    /\ InitOperator /\ InitHub /\ InitWait /\ IdleCache /\ IdleCombine
    /\ InitDispose

SpecWindowCached == InitSWC /\ [][NextWindow]_vars

(* a CombineLatest over Publishers *)
InitCL ==
    InitCombine /\ IdlePublisher /\ InitOperator /\ InitHub /\ InitWait
    /\ IdleCache /\ IdleWindow /\ InitDispose

SpecCombine == InitCL /\ [][NextCombine]_vars

(* a core.py Publisher and the disposables of its subscriptions *)
InitD ==
    InitDispose /\ IdlePublisher /\ InitOperator /\ InitHub /\ InitWait
    /\ IdleCache /\ IdleWindow /\ IdleCombine

SpecDispose == InitD /\ [][NextDispose]_vars

(* one object is built and used: a Publisher of broqer/publisher.py, or  *)
(* a Cache or Distinct over its upstream                                 *)
InitActivation ==
    /\ \/ InitPublisher /\ IdleCache
       \/ IdlePublisher /\ InitCache
    /\ InitOperator /\ InitHub /\ InitWait /\ IdleWindow /\ IdleCombine
    /\ InitDispose

NextActivation ==
    \/ IdleCache /\ NextPublisher
    \/ IdlePublisher /\ NextCache

SpecActivation == InitActivation /\ [][NextActivation]_vars

(* ===================== properties of the Publisher ==================== *)

(* C1: with an activation callback registered, a call invokes the         *)
(* callback with true exactly once iff it is a successful subscribe       *)
(* taking the subscriber count from 0 to 1, with false exactly once iff   *)
(* it is a successful unsubscribe taking it from 1 to 0, and no other     *)
(* call (or step) invokes it.                                             *)
C1_Expected ==
    IF last'.op = "subscribe" /\ last'.ok
       /\ Len(subscriptions) = 0 /\ Len(subscriptions') = 1
    THEN <<[cb |-> on_subscription_cb, arg |-> TRUE]>>
    ELSE IF last'.op = "unsubscribe" /\ last'.ok
            /\ Len(subscriptions) = 1 /\ Len(subscriptions') = 0
         THEN <<[cb |-> on_subscription_cb, arg |-> FALSE]>>
         ELSE <<>>

C1_ActivationCallback ==
    [][on_subscription_cb # Nobody => last'.cbs = C1_Expected]_vars

C1_Witness ==
    /\ on_subscription_cb # Nobody
    /\ last.op = "unsubscribe"
    /\ last.cbs = <<[cb |-> on_subscription_cb, arg |-> FALSE]>>
    /\ state # NONE

(* C2: a successful subscribe(s) calls s.emit with the state exactly once, *)
(* within the call, when the state is not NONE, and makes no emit call     *)
(* when the state is NONE.                                                 *)
C2_ReplayOnSubscribe ==
    [][last'.op = "subscribe" /\ last'.ok =>
          last'.emits = IF state = NONE THEN <<>>
                        ELSE <<[to |-> last'.sub, val |-> state]>>]_vars

C2_Witness ==
    /\ last.op = "subscribe"
    /\ last.ok
    /\ state # NONE
    /\ last.emits = <<[to |-> last.sub, val |-> state]>>
    /\ Len(subscriptions) = 2

(* C3: when a re-entrant unsubscribe (and no re-entrant subscribe)         *)
(* happened during a notify(v) fan-out, every subscriber in the list at    *)
(* the time notify was called has received v exactly once from that        *)
(* fan-out when notify returns.                                            *)
C3_SnapshotOnUnsubscribe ==
    stack # <<>> /\ NotifyDone(Top) /\ Top.removed /\ Top.added = {} =>
        \A i \in 1..Len(Top.snap) : Count(Top.visited, Top.snap[i]) = 1

(* a fan-out of two subscribers during which one was unsubscribed *)
C3_Witness ==
    /\ stack # <<>>
    /\ NotifyDone(Top)
    /\ Top.removed
    /\ Top.added = {}
    /\ Len(Top.snap) = 2

(* C4: a subscriber added by a re-entrant subscribe during a notify(v)     *)
(* fan-out is not visited by that fan-out.                                 *)
C4_AddedNotVisited ==
    \A i \in 1..Len(stack) :
        \A s \in stack[i].added \ Range(stack[i].snap) :
            Count(stack[i].visited, s) = 0

(* C5: a fan-out without re-entrant mutation calls emit once on each       *)
(* subscriber, in the order of the subscriber list, and a successful       *)
(* subscribe places its subscriber at the back of the list, or at the      *)
(* front with prepend.                                                     *)
C5_FanOutOrder ==
    \A i \in 1..Len(stack) :
        stack[i].added = {} /\ ~stack[i].removed =>
            /\ stack[i].snap = subscriptions
            /\ stack[i].visited = SubSeq(subscriptions, 1, stack[i].idx)
            /\ (i = Len(stack) /\ NotifyDone(stack[i]) =>
                    stack[i].visited = subscriptions)

C5_Placement ==
    last'.op = "subscribe" /\ last'.ok =>
        subscriptions' = IF last'.prepend
                         THEN <<last'.sub>> \o subscriptions
                         ELSE subscriptions \o <<last'.sub>>

C5_NotifyOrder == [](C5_FanOutOrder) /\ [][C5_Placement]_vars

C5_Witness ==
    /\ stack # <<>>
    /\ NotifyDone(Top)
    /\ Top.added = {}
    /\ ~Top.removed
    /\ Len(Top.visited) = NumSubscribers
    /\ Top.visited = subscriptions
    /\ \E i \in 1..(Len(subscriptions) - 1) :
           subscriptions[i] > subscriptions[i + 1]

(* C6: subscribing a subscriber that is in the list and unsubscribing one  *)
(* that is not raise; the failed call changes neither the list nor the     *)
(* state nor the callback, and makes no emit and no callback call; the     *)
(* list never holds a subscriber twice.                                    *)
C6_FailedCall ==
    /\ last'.op = "subscribe" =>
           (last'.ok <=> last'.sub \notin Range(subscriptions))
    /\ last'.op = "unsubscribe" =>
           (last'.ok <=> last'.sub \in Range(subscriptions))
    /\ last'.op \in {"subscribe", "unsubscribe"} /\ ~last'.ok =>
           /\ subscriptions' = subscriptions
           /\ state' = state
           /\ on_subscription_cb' = on_subscription_cb
           /\ last'.cbs = <<>>
           /\ last'.emits = <<>>

C6_SubscriptionError ==
    [](NoDuplicates(subscriptions)) /\ [][C6_FailedCall]_vars

C6_Witness ==
    /\ last.op = "subscribe"
    /\ ~last.ok
    /\ on_subscription_cb # Nobody
    /\ state # NONE
    /\ Len(subscriptions) = 1

(* ===================== properties of the operators ==================== *)

C8_Step ==
    /\ \A n \in Names : subject[n] # Nobody => subject'[n] = subject[n]
    /\ hlast'.op = "bind" /\ hlast'.ok =>
           \E n \in Names :
               /\ subject[n] = Nobody
               /\ subject'[n] # Nobody
               /\ \A k \in Names \ {n} : subject'[k] = subject[k]
    /\ hlast'.op = "bind" /\ ~hlast'.ok =>
           /\ subject' = subject
           /\ tSubs' = tSubs
           /\ meta' = meta
           /\ vSubs' = vSubs
           /\ vState' = vState
           /\ hlast'.got = NothingGot

C8_BindOnce == [][C8_Step]_vars

C8_Witness ==
    /\ hlast.op = "bind"
    /\ ~hlast.ok
    /\ \E n \in Names :
           /\ subject[n] # Nobody
           /\ tSubs[n] # {}
           /\ meta[n] # "none"
           /\ vSubs[subject[n]] = <<n>>

(* C9: when the subject holds a value, the first subscriber of a topic    *)
(* receives that value exactly once in either order: during the bind      *)
(* when it subscribed before the bind, during its subscribe when the      *)
(* topic was bound before; nobody else receives anything in that call.    *)
C9_Only(n, subs, v) ==
    hlast'.got = [k \in Names |-> [s \in Sinks |->
                     IF k = n /\ s \in subs THEN <<v>> ELSE <<>>]]

C9_Step ==
    /\ hlast'.op = "bind" /\ hlast'.ok =>
           \A n \in Names :
               subject[n] = Nobody /\ subject'[n] # Nobody
               /\ tSubs[n] # {} /\ vState'[subject'[n]] # NONE =>
                   C9_Only(n, tSubs[n], vState'[subject'[n]])
    /\ hlast'.op = "subscribe" /\ hlast'.ok =>
           \A n \in Names :
               tSubs[n] = {} /\ tSubs'[n] # {}
               /\ subject[n] # Nobody /\ vState[subject[n]] # NONE =>
                   C9_Only(n, tSubs'[n], vState[subject[n]])

C9_EitherOrder == [][C9_Step]_vars

(* subscribe first, bind later *)
C9_Witness ==
    /\ hlast.op = "bind"
    /\ hlast.ok
    /\ \E n \in Names, s \in Sinks :
           /\ tSubs[n] = {s}
           /\ subject[n] # Nobody
           /\ vState[subject[n]] # NONE
           /\ hlast.got[n][s] = <<vState[subject[n]]>>

(* bind first, subscribe later *)
C9_WitnessSubscribeLater ==
    /\ hlast.op = "subscribe"
    /\ hlast.ok
    /\ \E n \in Names, s \in Sinks :
           /\ tSubs[n] = {s}
           /\ subject[n] # Nobody
           /\ vState[subject[n]] # NONE
           /\ hlast.got[n][s] = <<vState[subject[n]]>>

(* C10: a subscriber that subscribes to a bound topic which already has   *)
(* subscribers, while the subject holds a value, receives that value      *)
(* exactly once during its subscribe.                                     *)
C10_Step ==
    hlast'.op = "subscribe" /\ hlast'.ok =>
        \A n \in Names, s \in Sinks :
            s \notin tSubs[n] /\ s \in tSubs'[n] /\ tSubs[n] # {}
            /\ subject[n] # Nobody /\ vState[subject[n]] # NONE =>
                hlast'.got[n][s] = <<vState[subject[n]]>>

C10_LateSubscriberReplay == [][C10_Step]_vars

(* a second subscriber joins a bound topic whose subject holds a value *)
C10_Witness ==
    /\ hlast.op = "subscribe"
    /\ hlast.ok
    /\ \E n \in Names :
           /\ Cardinality(tSubs[n]) = 2
           /\ subject[n] # Nobody
           /\ vState[subject[n]] # NONE

(* C11: a topic is in a Value's subscriber list iff that Value is its     *)
(* subject and the topic has at least one subscriber, and it is there     *)
(* once; so a bind on a topic with subscribers subscribes the topic       *)
(* within the bind call, and a bind on one without does not.              *)
C11_TopicDemandDriven ==
    \A n \in Names, p \in Subjects :
        /\ IsSubscribed(vSubs[p], n) <=> (subject[n] = p /\ tSubs[n] # {})
        /\ Count(vSubs[p], n) <= 1

(* a bind on a topic with two subscribers whose subject holds no value *)
C11_Witness ==
    /\ hlast.op = "bind"
    /\ hlast.ok
    /\ \E n \in Names :
           /\ Cardinality(tSubs[n]) = 2
           /\ subject[n] # Nobody
           /\ vState[subject[n]] = NONE
           /\ vSubs[subject[n]] = <<n>>

(* a bind on a topic without subscribers *)
C11_WitnessNoSubscriber ==
    /\ hlast.op = "bind"
    /\ hlast.ok
    /\ \E n \in Names :
           /\ tSubs[n] = {}
           /\ subject[n] # Nobody
           /\ vSubs[subject[n]] = <<>>

(* C12: Topic.emit on an unbound topic raises and delivers nothing; the   *)
(* emit of the subject's notification publishes the value to the topic's  *)
(* own subscribers; an emit by any other caller is forwarded to the       *)
(* subject, and each subscriber of the topic receives the value exactly   *)
(* once, through the subject's notification.                              *)
C12_Delivered(p, v) ==
    hlast'.got = [k \in Names |-> [s \in Sinks |->
                     IF subject[k] = p /\ s \in tSubs[k] THEN <<v>> ELSE <<>>]]

C12_Step ==
    /\ hlast'.op = "emit" =>
           \A n \in Names, v \in Values :
               /\ TopicEmitError(n, v) =>
                      /\ ~hlast'.ok
                      /\ hlast'.got = NothingGot
                      /\ vState' = vState
               /\ TopicEmit(n, v) =>
                      /\ hlast'.ok
                      /\ vState'[subject[n]] = v
                      /\ C12_Delivered(subject[n], v)
    /\ hlast'.op = "notify" =>
           \A p \in Subjects, v \in Values :
               ValueEmit(p, v) => C12_Delivered(p, v)

C12_EmitRouting == [][C12_Step]_vars

(* an emit on a bound topic by a caller that is not the subject reached   *)
(* both subscribers of the topic once                                     *)
C12_Witness ==
    /\ hlast.op = "emit"
    /\ hlast.ok
    /\ \E n \in Names :
           /\ subject[n] # Nobody
           /\ tSubs[n] = Sinks
           /\ \A s \in Sinks : hlast.got[n][s] = <<vState[subject[n]]>>

(* an emit on an unbound topic that has a subscriber *)
C12_WitnessUnbound ==
    /\ hlast.op = "emit"
    /\ ~hlast.ok
    /\ \E n \in Names : subject[n] = Nobody /\ tSubs[n] # {}

(* ============== properties of Topic.wait_for_assignment =============== *)

(* C13: a bind resolves every waiter pending on the topic: once the topic *)
(* is bound, the future each still-waiting waiter awaits is done.         *)
C13_BindResolvesAll ==
    aSubject # Nobody =>
        \A w \in Waiters :
            waiters[w].pc = "waiting" => futures[waiters[w].fut] = "done"

(* two waiters pending on the unbound topic at the same time *)
C13_Witness ==
    /\ aSubject = Nobody
    /\ \A w \in Waiters : waiters[w].pc = "waiting"

(* C14: a timed waiter on a topic that stays unbound gets the timeout,    *)
(* at its deadline and not before, eventually, and it alone: the other    *)
(* waiters, the topic's subject, subscriber set, meta and futures are     *)
(* unchanged by it; a bind of the unbound topic returns without error,    *)
(* also after a timeout.                                                  *)
C14_Step ==
    /\ \A w \in Waiters :
           waiters'[w].pc = "timeout" /\ waiters[w].pc # "timeout" =>
               /\ waiters[w].pc = "waiting"
               /\ waiters[w].timed
               /\ waiters[w].remaining = 0
               /\ \A o \in Waiters \ {w} : waiters'[o] = waiters[o]
               /\ UNCHANGED <<aSubject, aSubs, aSubscribed, aMeta,
                              assignment_future, futures>>
    /\ wlast'.op = "bind" /\ aSubject = Nobody =>
           wlast'.ok /\ aSubject' # Nobody /\ aSubs' = aSubs

C14_NoHang ==
    \A w \in Waiters :
        (waiters[w].pc = "waiting" /\ waiters[w].timed)
            ~> (waiters[w].pc = "timeout" \/ aSubject # Nobody)

C14_Timeout == [][C14_Step]_vars /\ C14_NoHang

(* a bind that returned normally on a topic with a subscriber, after a    *)
(* waiter of the topic had timed out                                      *)
C14_Witness ==
    /\ wlast.op = "bind"
    /\ wlast.ok
    /\ aSubs # {}
    /\ \E w \in Waiters : waiters[w].pc = "timeout"

(* C15: hub[name] registers the name on first access and returns the     *)
(* topic of that name as it is (a fresh topic is unbound and without     *)
(* subscribers); hub.publish(name) registers the name as well; `name in  *)
(* hub` answers whether the name is registered, bound or not, and        *)
(* changes nothing; no other call changes the registered names.          *)
C15_Step ==
    /\ proxies \subseteq proxies'
    /\ hlast'.op \notin {"getitem", "bind"} => proxies' = proxies
    /\ hlast'.op = "getitem" =>
           \A n \in Names : GetItem(n) =>
               /\ proxies' = proxies \cup {n}
               /\ tSubs'[n] = tSubs[n]
               /\ subject'[n] = subject[n]
               /\ meta'[n] = meta[n]
    /\ hlast'.op = "bind" =>
           \E n \in Names :
               /\ proxies' = proxies \cup {n}
               /\ hlast'.ok => subject[n] = Nobody /\ subject'[n] # Nobody
    /\ hlast'.op = "contains" =>
           /\ UNCHANGED <<proxies, tSubs, subject, meta, vState, vSubs>>
           /\ \A n \in Names : Contains(n) => (hlast'.ok <=> n \in proxies)

C15_Fresh ==
    \A n \in Names \ proxies :
        subject[n] = Nobody /\ tSubs[n] = {} /\ meta[n] = "none"

C15_NameResolution == [](C15_Fresh) /\ [][C15_Step]_vars

(* `in` answers true for a name that was referenced and is not bound *)
C15_Witness ==
    /\ hlast.op = "contains"
    /\ hlast.ok
    /\ \E n \in proxies : subject[n] = Nobody

(* hub[name] on a bound topic with a subscriber *)
C15_WitnessSameTopic ==
    /\ hlast.op = "getitem"
    /\ \E n \in proxies : subject[n] # Nobody /\ tSubs[n] # {}

(* ================= properties of Cache and Distinct =================== *)

C16_All(subs, args) == [s \in Sinks |-> IF s \in subs THEN <<args>> ELSE <<>>]

(* C16: an emission into an active Distinct is forwarded, once to each    *)
(* subscriber, exactly when its tuple differs from the cached tuple,      *)
(* which then becomes the tuple; the same tuple emitted twice in a row    *)
(* is not forwarded the second time. An active Cache forwards every       *)
(* emission once to each subscriber and its cache becomes the tuple.      *)
C16_Step ==
    clast'.op = "emit" /\ clast'.ok =>
        /\ cSubs # {}
        /\ opKind = "Cache" =>
               /\ opCache' = clast'.args
               /\ clast'.got = C16_All(cSubs, clast'.args)
        /\ opKind = "Distinct" =>
               IF clast'.args # opCache
               THEN /\ opCache' = clast'.args
                    /\ clast'.got = C16_All(cSubs, clast'.args)
               ELSE /\ opCache' = opCache
                    /\ clast'.got = NothingReceived
        /\ opKind = "Distinct" /\ clast.op = "emit" /\ clast.ok
           /\ clast.args = clast'.args =>
               clast'.got = NothingReceived

C16_DistinctAndCache == [][C16_Step]_vars

(* a Distinct with two subscribers swallowed an emission *)
C16_Witness ==
    /\ opKind = "Distinct"
    /\ clast.op = "emit"
    /\ clast.ok
    /\ Cardinality(cSubs) = 2
    /\ clast.got = NothingReceived

(* a Cache forwarded the tuple it already held *)
C16_WitnessCache ==
    /\ opKind = "Cache"
    /\ srcKind = "Publisher"
    /\ clast.op = "emit"
    /\ clast.ok
    /\ cSubs # {}
    /\ clast.got = C16_All(cSubs, clast.args)

(* C17 as stated: when a subscribe on a Cache activates the upstream and  *)
(* the upstream replays a tuple during it, the new subscriber receives    *)
(* the tuple the Cache held when subscribe was called, and the Cache      *)
(* still holds it.                                                        *)
C17_Step ==
    clast'.op = "subscribe" /\ opKind = "Cache" /\ cSubs = {}
    /\ srcKind = "CachedPublisher" /\ srcCache # NoTuple
    /\ opCache # NoTuple =>
        /\ clast'.got = C16_All(cSubs', opCache)
        /\ opCache' = opCache

C17_ReplayKeepsCache == [][C17_Step]_vars

(* C17 amended: when a subscribe on a Cache activates the upstream and    *)
(* the upstream replays a tuple during it, the new subscriber receives    *)
(* the replayed tuple, once, and the Cache holds that tuple afterwards;   *)
(* when the upstream replays nothing during the subscribe, the new        *)
(* subscriber receives, once, the tuple the Cache held when subscribe     *)
(* was called, and the Cache still holds it.                              *)
C17_AmendedStep ==
    clast'.op = "subscribe" /\ clast'.ok /\ opKind = "Cache" =>
        IF cSubs = {} /\ srcKind = "CachedPublisher" /\ srcCache # NoTuple
        THEN /\ clast'.got = C16_All(cSubs' \ cSubs, srcCache)
             /\ opCache' = srcCache
        ELSE /\ clast'.got = C16_All(cSubs' \ cSubs, opCache)
             /\ opCache' = opCache

C17_ReplayPrefersUpstream == [][C17_AmendedStep]_vars

(* the first subscriber of a Cache got the tuple its upstream replayed *)
C17_Witness ==
    /\ opKind = "Cache"
    /\ clast.op = "subscribe"
    /\ clast.ok
    /\ srcKind = "CachedPublisher"
    /\ srcCache # NoTuple
    /\ \E s \in Sinks : cSubs = {s} /\ clast.got[s] = <<srcCache>>

(* ================== properties of the SlidingWindow =================== *)

C18_LastN(seq, k) == SubSeq(seq, Len(seq) - k + 1, Len(seq))

C18_All(subs, buf) == [s \in Sinks |-> IF s \in subs THEN <<buf>> ELSE <<>>]

(* C18: the window never holds more than maxlen values and holds the      *)
(* most recent values fed, in arrival order; with emit_partial every      *)
(* value fed was forwarded; size 3 without emit_partial fed 1,2,3,4 has   *)
(* forwarded [1,2,3] and [2,3,4] and nothing else.                        *)
C18_Buffer ==
    /\ Len(window) <= maxlen
    /\ window = C18_LastN(fed, IF Len(fed) < maxlen THEN Len(fed) ELSE maxlen)
    /\ emit_partial => Len(sent) = Len(fed)
    /\ maxlen = 3 /\ ~emit_partial /\ fed = <<1, 2, 3, 4>> =>
           sent = << <<1, 2, 3>>, <<2, 3, 4>> >>

(* C18: a value fed is forwarded, as one emission of the buffer after     *)
(* the append to each subscriber, iff emit_partial is set or the buffer   *)
(* then holds maxlen values.                                              *)
C18_Step ==
    swlast'.op = "emit" /\ swlast'.ok =>
        IF emit_partial \/ Len(window') = maxlen
        THEN /\ swlast'.got = C18_All(swSubs, window')
             /\ sent' = Append(sent, window')
        ELSE /\ swlast'.got = NothingReceived
             /\ sent' = sent

C18_SlidingWindow == [](C18_Buffer) /\ [][C18_Step]_vars

(* size 3 without emit_partial was fed 1,2,3,4 and has just forwarded     *)
(* [2,3,4]                                                                *)
C18_Witness ==
    /\ maxlen = 3
    /\ ~emit_partial
    /\ fed = <<1, 2, 3, 4>>
    /\ swlast.op = "emit"
    /\ \E s \in swSubs : swlast.got[s] = << <<2, 3, 4>> >>

(* a partial window was forwarded *)
C18_WitnessPartial ==
    /\ maxlen = 3
    /\ emit_partial
    /\ swlast.op = "emit"
    /\ \E s \in swSubs : swlast.got[s] = << <<2, 1>> >>

(* ====================== properties of CombineLatest ==================== *)
(* how many of the updates received came from a publisher in emit_on *)
C19_Triggering == Cardinality({k \in 1..Len(clFed) : clFed[k][1] \in emit_on})

(* C19: no more was emitted than updates came from publishers in emit_on; *)
(* with publishers A, B and emit_on = B, after A emits a, B emits b, B     *)
(* emits c (b, c different), exactly (a,b) then (a,c) were emitted; after  *)
(* B emits b, A emits a, B emits c exactly (a,c) was (test_emit_on).       *)
C19_Sent ==
    /\ Len(clSent) <= C19_Triggering
    /\ sources = 2 /\ emit_on = {2} /\ map_ = "tuple" =>
         \A a, b, c \in CombineValues :
            clFed = << <<1, a>>, <<2, b>>, <<2, c>> >> /\ b # c =>
                clSent = << <<a, b>>, <<a, c>> >>
    /\ sources = 2 /\ emit_on = {2} /\ map_ = "tuple" =>
         \A a, b, c \in CombineValues :
            clFed = << <<2, b>>, <<1, a>>, <<2, c>> >> =>
                clSent = << <<a, c>> >>

(* C19: an update is emitted downstream only if its publisher is in      *)
(* emit_on; an update of a publisher outside emit_on changes the stored   *)
(* latest value of that publisher and nothing else, and no subscriber     *)
(* receives anything.                                                     *)
C19_Step ==
    cllast'.op = "notify" /\ cllast'.ok =>
        /\ (\E s \in Collectors : cllast'.got[s] # <<>>) =>
               cllast'.who \in emit_on
        /\ cllast'.who \notin emit_on =>
               /\ latest' = [latest EXCEPT ![cllast'.who] = <<cllast'.val>>]
               /\ combined' = combined
               /\ clSent' = clSent
               /\ cllast'.got = NothingCollected

C19_EmitOn == [](C19_Sent) /\ [][C19_Step]_vars

(* emit_on = B: A updated while B had a value, and nothing was emitted    *)
C19_Witness ==
    /\ sources = 2
    /\ emit_on = {2}
    /\ clSubs # {}
    /\ cllast.op = "notify" /\ cllast.ok /\ cllast.who = 1
    /\ latest[2] # NotEmitted
    /\ latest[1] = <<cllast.val>>
    /\ cllast.got = NothingCollected

(* A emitted 1, B emitted 1, B emitted 0: (1,1) then (1,0) were emitted   *)
C19_WitnessExample ==
    /\ sources = 2
    /\ emit_on = {2}
    /\ map_ = "tuple"
    /\ clFed = << <<1, 1>>, <<2, 1>>, <<2, 0>> >>
    /\ clSent = << <<1, 1>>, <<1, 0>> >>
    /\ \E s \in clSubs : cllast.got[s] = << <<1, 0>> >>

(* the value the CombineLatest emits for the stored values lat: their    *)
(* tuple, a+b for map_ = lambda a,b: a+b, a-b for the guarded map_        *)
C20_Value(lat) ==
    IF map_ = "tuple" THEN [i \in 1..sources |-> lat[i][1]]
    ELSE IF map_ = "add" THEN <<lat[1][1] + lat[2][1]>>
    ELSE <<lat[1][1] - lat[2][1]>>

(* the publishers the CombineLatest received an update from *)
C20_Emitted == {clFed[k][1] : k \in 1..Len(clFed)}

(* C20: whatever was emitted for an update is a tuple with one value per *)
(* publisher, or one mapped result, and was emitted after every publisher *)
(* had emitted; without publishers nothing is emitted for updates.        *)
C20_Sent ==
    /\ \A k \in 1..Len(clSent) :
          Len(clSent[k]) = IF map_ = "tuple" THEN sources ELSE 1
    /\ clSent # <<>> => C20_Emitted = 1..sources
    /\ sources = 0 => clSent = <<>> /\ combined = Result(<<>>)

(* C20: an update is emitted downstream only when no stored value is     *)
(* NONE and map_, if given, does not yield NONE; each subscriber then     *)
(* receives once the tuple of the latest values in the order of the       *)
(* publishers, or the mapped result. Without publishers a new subscriber  *)
(* receives the empty tuple once on subscribe.                            *)
C20_Step ==
    /\ cllast'.op = "notify" /\ cllast'.ok
       /\ (\E s \in Collectors : cllast'.got[s] # <<>>) =>
          /\ \A i \in 1..sources : latest'[i] # NotEmitted
          /\ map_ = "guard" => ~(latest'[1][1] > latest'[2][1])
          /\ \A s \in Collectors :
                cllast'.got[s] = IF s \in clSubs THEN <<C20_Value(latest')>>
                                 ELSE <<>>
          /\ clSent' = Append(clSent, C20_Value(latest'))
    /\ cllast'.op = "subscribe" /\ cllast'.ok /\ sources = 0 =>
          /\ cllast'.who \notin clSubs
          /\ \A s \in Collectors :
                cllast'.got[s] = IF s = cllast'.who THEN << <<>> >> ELSE <<>>

C20_Combination == [](C20_Sent) /\ [][C20_Step]_vars

(* the guarded map_ yielded NONE for an update of a publisher in emit_on  *)
(* when every publisher had a value: nothing was emitted                  *)
C20_Witness ==
    /\ map_ = "guard"
    /\ cllast.op = "notify" /\ cllast.ok
    /\ cllast.who \in emit_on
    /\ latest[1] # NotEmitted /\ latest[2] # NotEmitted
    /\ latest[1][1] > latest[2][1]
    /\ clSubs # {}
    /\ cllast.got = NothingCollected

(* a+b was emitted for the latest values *)
C20_WitnessMapped ==
    /\ map_ = "add"
    /\ cllast.op = "notify" /\ cllast.ok
    /\ latest[1] # NotEmitted /\ latest[2] # NotEmitted
    /\ \E s \in clSubs : cllast.got[s] = <<C20_Value(latest)>>

(* one publisher had emitted, the other not: nothing was emitted *)
C20_WitnessIncomplete ==
    /\ sources = 2
    /\ cllast.op = "notify" /\ cllast.ok
    /\ cllast.who \in emit_on
    /\ latest[1] # NotEmitted /\ latest[2] = NotEmitted
    /\ clSubs # {}
    /\ cllast.got = NothingCollected

(* without publishers the subscriber received the empty tuple *)
C20_WitnessNoPublishers ==
    /\ sources = 0
    /\ cllast.op = "subscribe" /\ cllast.ok
    /\ cllast.who \in clSubs
    /\ cllast.got[cllast.who] = << <<>> >>

(* =============== properties of SubscriptionDisposable ================= *)
(* C21: dispose() of the disposable of a subscriber that is subscribed   *)
(* removes that subscriber and no other; when the subscriber is no       *)
(* longer subscribed, dispose() raises and the subscriber set stays as   *)
(* it was.                                                               *)
C21_Step ==
    dlast'.op = "dispose" =>
        /\ dlast'.who \in disposables
        /\ IF dlast'.who \in pSubs
           THEN dlast'.ok /\ pSubs' = pSubs \ {dlast'.who}
           ELSE ~dlast'.ok /\ pSubs' = pSubs

C21_Dispose == [][C21_Step]_vars

(* a dispose() raised for a subscriber removed before, while another     *)
(* subscriber stayed subscribed                                          *)
C21_Witness ==
    /\ dlast.op = "dispose"
    /\ ~dlast.ok
    /\ dlast.who \in disposables
    /\ dlast.who \notin pSubs
    /\ pSubs # {}

(* a dispose() removed its subscriber and left another one subscribed *)
C21_WitnessRemoved ==
    /\ dlast.op = "dispose"
    /\ dlast.ok
    /\ dlast.who \notin pSubs
    /\ pSubs # {}

(* ============ further properties of the Publisher ===================== *)
(* C22: registering a callback while one is registered raises and the    *)
(* registered callback stays: once set it never changes, and every       *)
(* activation callback a subscribe or unsubscribe invokes is the         *)
(* registered one.                                                       *)
C22_Step ==
    /\ last'.op = "register" =>
          (last'.ok <=> on_subscription_cb = Nobody)
    /\ last'.op = "register" /\ last'.ok => on_subscription_cb' = last'.sub
    /\ on_subscription_cb # Nobody => on_subscription_cb' = on_subscription_cb
    /\ \A k \in 1..Len(last'.cbs) : last'.cbs[k].cb = on_subscription_cb

C22_CallbackConflict == [][C22_Step]_vars

(* a second, different callback was rejected *)
C22_Witness ==
    /\ last.op = "register"
    /\ ~last.ok
    /\ on_subscription_cb # Nobody
    /\ last.sub # on_subscription_cb

(* the registered callback 1 was invoked on the last unsubscribe *)
C22_WitnessInvoked ==
    /\ on_subscription_cb = 1
    /\ last.op = "unsubscribe"
    /\ last.cbs = <<[cb |-> 1, arg |-> FALSE]>>

(* the argument of the notify call the step just taken made *)
C23_Notified == stack'[Len(stack')].value

(* C23 as claimed: the state is the argument of the most recent notify: *)
(* a notify sets it to its argument and no other step changes it.        *)
C23_OnlyNotifyStep ==
    IF last'.op = "notify" THEN state' = C23_Notified ELSE state' = state

C23_Step ==
    /\ last'.op = "notify" => state' = C23_Notified
    /\ last'.op \notin {"notify", "reset_state"} => state' = state

C23_WitnessReset ==
    /\ last.op = "reset_state"
    /\ state = 1
    /\ stack = <<>>
    /\ subscriptions # <<>>

(* the running notify loops, without the count of calls made in them *)
C24_Loops(stk) == [i \in 1..Len(stk) |-> [stk[i] EXCEPT !.calls = 0]]

(* C24: reset_state starts no loop over the subscribers and lets the     *)
(* running ones as they are, makes no emit call, invokes no activation   *)
(* callback and leaves the subscriber list and the callback unchanged;   *)
(* with the state NONE a subscribe replays nothing.                      *)
C24_Step ==
    /\ last'.op = "reset_state" =>
          /\ last'.ok
          /\ last'.emits = <<>>
          /\ last'.cbs = <<>>
          /\ subscriptions' = subscriptions
          /\ on_subscription_cb' = on_subscription_cb
          /\ C24_Loops(stack') = C24_Loops(stack)
    /\ last'.op = "subscribe" /\ state = NONE => last'.emits = <<>>

C24_ResetState == [][C24_Step]_vars

(* reset_state() cleared the state of a publisher with two subscribers *)
C24_Witness ==
    /\ last.op = "reset_state"
    /\ state = NONE
    /\ Len(subscriptions) = 2
    /\ on_subscription_cb # Nobody

(* a subscriber was added while the state was NONE and got no replay *)
C24_WitnessNoReplay ==
    /\ last.op = "subscribe"
    /\ last.ok
    /\ state = NONE
    /\ last.emits = <<>>
    /\ Len(subscriptions) = 2

(* ========== properties of the activation of a publisher or operator === *)
(* the positions of the events named e in the order of a call *)
C25_At(order, e) == {k \in 1..Len(order) : order[k] = e}

(* C25: in a subscribe call that takes a Publisher from no subscriber to *)
(* one, the activation callback (if one is registered) is invoked before *)
(* the replay is emitted; in a subscribe call that takes a Cache or      *)
(* Distinct from no subscriber to one, the operator subscribes to its    *)
(* upstream before the new subscriber receives anything.                 *)
C25_Step ==
    /\ last'.op = "subscribe" /\ last'.ok /\ subscriptions = <<>> =>
          /\ Cardinality(C25_At(last'.order, "callback")) = Len(last'.cbs)
          /\ Cardinality(C25_At(last'.order, "emit")) = Len(last'.emits)
          /\ on_subscription_cb # Nobody =>
                /\ last'.cbs = <<[cb |-> on_subscription_cb, arg |-> TRUE]>>
                /\ \A i \in C25_At(last'.order, "callback"),
                      j \in C25_At(last'.order, "emit") : i < j
    /\ clast'.op = "subscribe" /\ cSubs = {} /\ cSubs' # {} =>
          /\ srcSubscribed'
          /\ Cardinality(C25_At(clast'.order, "activate")) = 1
          /\ \A s \in Sinks :
                s \in cSubs' =>
                   Cardinality(C25_At(clast'.order, "emit")) = Len(clast'.got[s])
          /\ \A i \in C25_At(clast'.order, "activate"),
                j \in C25_At(clast'.order, "emit") : i < j

C25_WitnessOperator ==
    /\ clast.op = "subscribe"
    /\ clast.ok
    /\ Cardinality(cSubs) = 1
    /\ srcSubscribed
    /\ clast.order = <<"activate", "emit">>

(* C26: a subscribe call on a Cache or Distinct that fails because the   *)
(* subscriber is already subscribed leaves the operator's stored tuple   *)
(* as it was before the call.                                            *)
C26_Step ==
    clast'.op = "subscribe" /\ ~clast'.ok /\ cSubs' = cSubs =>
       opCache' = opCache

C26_FailedSubscribeKeepsCache == [][C26_Step]_vars

(* C27: one subscribe call on a SlidingWindow, Cache or Distinct         *)
(* delivers at most one emission to the new subscriber, also when the    *)
(* call activates the upstream and the upstream replays its value.       *)
C27_Step ==
    /\ swlast'.op = "subscribe" =>
          \A s \in Sinks : Len(swlast'.got[s]) <= 1
    /\ clast'.op = "subscribe" =>
          \A s \in Sinks : Len(clast'.got[s]) <= 1

C27_OneEmissionOnSubscribe == [][C27_Step]_vars

(* C28: when a subscriber called notify(w) from inside its emit during  *)
(* the fan-out of notify(v) and the state is w when the outer notify    *)
(* returns, every subscriber that is subscribed and received a value    *)
(* during the outer notify received the state last.                     *)
C28_Step ==
    /\ Len(stack) = 1
    /\ stack' = <<>>
    /\ NotifyDone(stack[1])
    /\ last' = NoCall
    /\ stack[1].renotify # NONE
    /\ state = stack[1].renotify
    => \A s \in Subscribers :
          IsSubscribed(subscriptions, s) /\ stack[1].recv[s] # NONE =>
             stack[1].recv[s] = state

C28_ReentrantNotifyOrdered == [][C28_Step]_vars

====
